---- MODULE Spec2Model ----
(***************************************************************************)
(* Model of gameplay::MaterialParameter (src/gameplay/src/                 *)
(* MaterialParameter.cpp): the tagged value cell (_type, _count, _dynamic, *)
(* _value), its typed setValue overloads, clearValue, the destructor,      *)
(* cloneInto, the animation read/blend path, bind and bindValue; and of    *)
(* the script entry points of AnimationValue (src/gameplay/src/lua/        *)
(* lua_AnimationValue.cpp).                                                *)
(*                                                                         *)
(* Memory is modelled explicitly: a heap of float/int buffers (the         *)
(* caller's arrays and the parameter's own new[] allocations), and         *)
(* reference-counted samplers.  The union _value is a tagged cell whose    *)
(* tag records the member written last; reading another member is a        *)
(* reinterpretation of the same bytes (64-bit pointers, 32-bit scalars).   *)
(***************************************************************************)
EXTENDS Integers, Sequences, FiniteSets, TLC

(***************************************************************************)
(* Bounds of the model.                                                    *)
(***************************************************************************)
\* Largest element count a caller passes to an array overload.
MaxCount == 2
\* Number of new[] allocations a run may perform (addresses are not reused).
MaxAlloc == 3
\* Number of samplers Texture::Sampler::create may produce in a run.
MaxCreate == 1
\* Length of the operation sequences explored by the animation specification.
MaxOps == 3
\* Length of the operation sequences explored by the binding specification.
MaxBindOps == 4
\* Number of method bindings bindValue may create in a run.
MaxBind == 1
\* Largest number of arguments a script passes to an entry point.
MaxArgs == 5
\* Number of calls of a script entry point in a run.
MaxLuaOps == 1
\* Bits of the significand of the model's binary floating point format
\* (IEEE binary32 has 24): small, so that rounding happens on small numbers.
MantBits == 4

(***************************************************************************)
(* Binary floating point.  A float is <<m, e>>, standing for m * 2^e, in   *)
(* normal form: m odd, or <<0, 0>>.  Every operation computes the exact    *)
(* result and rounds it to MantBits significant bits, ties to even.        *)
(* Overflow, infinities and NaN are outside the model.                     *)
(***************************************************************************)
Abs(n) == IF n < 0 THEN 0 - n ELSE n

\* What a read of bytes that hold no defined scalar yields: an int, and the
\* float UnknownF, which is no number (its significand is 0, its exponent not)
\* and which every operation passes on.
Unknown == 0 - 99

UnknownF == <<0, Unknown>>

Sign(n) == IF n < 0 THEN 0 - 1 ELSE 1

RECURSIVE Norm(_, _)
Norm(m, e) ==
    IF m = 0 THEN <<0, 0>>
    ELSE IF m % 2 = 0 THEN Norm(m \div 2, e + 1)
    ELSE <<m, e>>

\* Number of low bits of magnitude a to drop to fit MantBits bits.
RECURSIVE DropBits(_, _)
DropBits(a, k) == IF a \div (2 ^ k) < 2 ^ MantBits THEN k ELSE DropBits(a, k + 1)

\* m * 2^e rounded to the nearest float, ties to even.
RoundF(m, e) ==
    LET a    == Abs(m)
        k    == DropBits(a, 0)
        q    == 2 ^ k
        hi   == a \div q
        lo   == a % q
        up   == (2 * lo > q) \/ (2 * lo = q /\ hi % 2 = 1)
        r    == IF up THEN hi + 1 ELSE hi
    IN  Norm(Sign(m) * r, e + k)

\* The float of the integer i (an int to float conversion rounds).
IntToFloat(i) == IF i = Unknown THEN UnknownF ELSE RoundF(i, 0)

\* i / 2^k as a float, for writing constants such as 2.5 == Frac(5, 1).
Frac(i, k) == RoundF(i, 0 - k)

MinOf(a, b) == IF a < b THEN a ELSE b

FAdd(x, y) ==
    IF x = UnknownF \/ y = UnknownF THEN UnknownF
    ELSE LET e == MinOf(x[2], y[2])
         IN  RoundF(x[1] * 2 ^ (x[2] - e) + y[1] * 2 ^ (y[2] - e), e)

FNeg(x) == IF x = UnknownF THEN UnknownF ELSE <<0 - x[1], x[2]>>

FSub(x, y) == FAdd(x, FNeg(y))

FMul(x, y) ==
    IF x = UnknownF \/ y = UnknownF THEN UnknownF
    ELSE RoundF(x[1] * y[1], x[2] + y[2])

\* float to int conversion: truncation toward zero.
FloatToInt(x) ==
    IF x = UnknownF THEN Unknown
    ELSE IF x[2] >= 0 THEN x[1] * 2 ^ x[2]
    ELSE Sign(x[1]) * (Abs(x[1]) \div 2 ^ (0 - x[2]))

\* Whether the exact difference y - x is a float (the subtraction does not round).
ExactDiff(x, y) ==
    x # UnknownF /\ y # UnknownF /\
    LET e == MinOf(x[2], y[2])
        d == y[1] * 2 ^ (y[2] - e) - x[1] * 2 ^ (x[2] - e)
    IN  Norm(d, e) = RoundF(d, e)

\* x <= y
FLeq(x, y) == FSub(y, x)[1] >= 0

\* blendWeight >= 0.0f && blendWeight <= 1.0f
InUnit(x) == FLeq(<<0, 0>>, x) /\ FLeq(x, <<1, 0>>)

\* Curve::lerp(t, from, to)
Lerp(t, from, to) == FAdd(from, FMul(FSub(to, from), t))


(***************************************************************************)
(* The cell's kinds and the layout of its values.                          *)
(***************************************************************************)
Params == {1, 2}

Types == {"NONE", "FLOAT", "INT", "VECTOR2", "VECTOR3", "VECTOR4", "MATRIX",
          "SAMPLER", "METHOD"}

\* The kinds that have an array overload, in the order of the caller's buffers.
ArrayKinds == <<"FLOAT", "INT", "VECTOR2", "VECTOR3", "VECTOR4", "MATRIX">>

\* Scalars per element: new float[2], new float[3], new float[4], new float[16].
Components(t) ==
    CASE t = "VECTOR2" -> 2
      [] t = "VECTOR3" -> 3
      [] t = "VECTOR4" -> 4
      [] t = "MATRIX"  -> 16
      [] OTHER         -> 1

(***************************************************************************)
(* Memory.  Address 0 is NULL.  The caller owns one array per array kind,  *)
(* at addresses 1..NumCaller, of MaxCount elements; the addresses above    *)
(* are handed out by new[], each once.  Wild stands for a non-null pointer *)
(* that is not the start of any buffer (the bytes of a scalar, a sampler   *)
(* or a method read as a pointer).                                         *)
(***************************************************************************)
NULL == 0

Wild == 0 - 1

NumCaller == Len(ArrayKinds)

CallerAddrs == 1 .. NumCaller

OwnAddrs == (NumCaller + 1) .. (NumCaller + MaxAlloc)

Addrs == CallerAddrs \cup OwnAddrs

\* The caller's array of kind t.
CallerBuf(t) == CHOOSE a \in CallerAddrs : ArrayKinds[a] = t

\* An int that IntToFloat has to round.
BigInt == 2 ^ MantBits + 1

\* What the caller's arrays hold: distinct values, index by index.
CallerData(a) ==
    IF ArrayKinds[a] = "INT"
    THEN [i \in 1 .. MaxCount |-> BigInt + i - 1]
    ELSE [i \in 1 .. MaxCount * Components(ArrayKinds[a]) |-> IntToFloat(i)]

CallerSamplers == {1, 2}

SamplerIds == 1 .. (Cardinality(CallerSamplers) + MaxCreate)

MethodIds == 1 .. MaxBind

(***************************************************************************)
(* The union _value.  tag names the member written last and v its content; *)
(* all-zero bytes (memset, 0.0f, 0, NULL) are the one value Zero.          *)
(***************************************************************************)
Zero == [tag |-> "zero", v |-> 0]

FloatVal(f) == IF f = <<0, 0>> THEN Zero ELSE [tag |-> "float", v |-> f]

IntVal(i) == IF i = 0 THEN Zero ELSE [tag |-> "int", v |-> i]

PtrVal(a) == IF a = NULL THEN Zero ELSE [tag |-> "ptr", v |-> a]

SamplerVal(s) == IF s = NULL THEN Zero ELSE [tag |-> "sampler", v |-> s]

MethodVal(m) == IF m = NULL THEN Zero ELSE [tag |-> "method", v |-> m]

\* A 32-bit scalar written over the low half of a 64-bit pointer: the tag
\* "float_hi" or "int_hi" says that the high half is still the pointer's.
Wide == {"ptr", "sampler", "method", "float_hi", "int_hi"}

\* _value.floatValue = f, on a union holding u
FloatOver(u, f) == IF u.tag \in Wide THEN [tag |-> "float_hi", v |-> f] ELSE FloatVal(f)

\* _value.intValue = i, on a union holding u
IntOver(u, i) == IF u.tag \in Wide THEN [tag |-> "int_hi", v |-> i] ELSE IntVal(i)

\* _value.floatPtrValue / _value.intPtrValue
AsPtr(u) ==
    CASE u.tag = "zero" -> NULL
      [] u.tag = "ptr"  -> u.v
      [] OTHER          -> Wild

\* _value.samplerValue
AsSampler(u) ==
    CASE u.tag = "zero"    -> NULL
      [] u.tag = "sampler" -> u.v
      [] OTHER             -> Wild

\* _value.method
AsMethod(u) ==
    CASE u.tag = "zero"   -> NULL
      [] u.tag = "method" -> u.v
      [] OTHER            -> Wild

VARIABLES
    alive,      \* alive[p]: p is constructed and not yet destroyed
    type,       \* _type
    count,      \* _count
    dynamic,    \* _dynamic
    value,      \* _value
    heap,       \* heap[a] = [st, data, frees]
    samplers,   \* samplers[s] = [st, refCount]
    methods,    \* methods[m] = [st, refCount]
    av,         \* the AnimationValue's float array
    held,       \* held[p][s]: references p has taken on s minus those it released
    uniform,    \* _uniform
    name,       \* _name
    out,        \* what the most recent operation emitted: uploads, warning, abort,
                \* calls on the AnimationValue, script error, values returned
    ub,         \* the undefined behaviour the run has executed
    last,       \* the most recent operation
    fuel        \* operations the run may still perform (-1: any number)

vars == <<alive, type, count, dynamic, value, heap, samplers, methods,
          av, held, uniform, name, out, ub, last, fuel>>

\* An operation that has uploaded nothing, warned of nothing and not aborted.
NoOut == [uploads |-> <<>>, warn |-> FALSE, fatal |-> "none",
          calls |-> <<>>, error |-> "none", ret |-> <<>>]

\* The part of the state the member functions read and write.
World == [type |-> type, count |-> count, dynamic |-> dynamic, value |-> value,
          heap |-> heap, samplers |-> samplers, methods |-> methods,
          av |-> av, held |-> held, uniform |-> uniform, name |-> name,
          out |-> NoOut, ub |-> ub]

Commit(w) ==
    \E r \in {w} :
        /\ type' = r.type
        /\ count' = r.count
        /\ dynamic' = r.dynamic
        /\ value' = r.value
        /\ heap' = r.heap
        /\ samplers' = r.samplers
        /\ methods' = r.methods
        /\ av' = r.av
        /\ held' = r.held
        /\ uniform' = r.uniform
        /\ out' = r.out
        /\ ub' = r.ub
        /\ name' = name

\* _value.floatValue: the low 32 bits of the union as a float; the bits of
\* a pointer or of an int are no float the model knows.
AsFloat(u) ==
    CASE u.tag = "zero"  -> <<0, 0>>
      [] u.tag \in {"float", "float_hi"} -> u.v
      [] OTHER           -> UnknownF

\* _value.intValue: the low 32 bits of the union as an int.
AsInt(u) ==
    CASE u.tag = "zero"  -> 0
      [] u.tag \in {"int", "int_hi"} -> u.v
      [] OTHER           -> Unknown

(***************************************************************************)
(* new[], delete[], and reads and writes through a float or int pointer.   *)
(***************************************************************************)
Undefined(w, what) == [w EXCEPT !.ub = @ \cup {what}]

\* A failed GP_ASSERT (how = "assert") or a GP_ERROR (how = "error"): the
\* operation ends at that point, and the program with it.
Fatal(w, how) == [w EXCEPT !.out.fatal = how]

\* Whether new[] still has an address to hand out.
CanAlloc(h) == \E a \in OwnAddrs : h[a].st = "unalloc"

\* The address new[] returns.
NewAddr(h) == CHOOSE a \in OwnAddrs :
                 /\ h[a].st = "unalloc"
                 /\ \A b \in OwnAddrs : h[b].st = "unalloc" => a <= b

\* new float[Len(data)], filled with data.
NewArray(w, data) ==
    [w EXCEPT !.heap[NewAddr(w.heap)] = [st |-> "live", data |-> data, frees |-> 0]]

\* delete[] a
DeleteArray(w, a) ==
    LET w1 == CASE a = Wild -> Undefined(w, "delete[] of a pointer that is no buffer")
                [] a \in CallerAddrs -> Undefined(w, "delete[] of a caller's buffer")
                [] w.heap[a].st # "live" -> Undefined(w, "delete[] of a freed buffer")
                [] OTHER -> w
    IN  IF a = Wild THEN w1
        ELSE [w1 EXCEPT !.heap[a] = [st |-> "freed", data |-> <<>>,
                                     frees |-> IF @.frees < 2 THEN @.frees + 1 ELSE 2]]

\* SAFE_DELETE_ARRAY(_value.floatPtrValue)
SafeDeleteArray(w, p) ==
    LET a == AsPtr(w.value[p])
    IN  IF a = NULL THEN w
        ELSE [DeleteArray(w, a) EXCEPT !.value[p] = Zero]

\* Whether n scalars can be read or written at a.
Valid(h, a, n) == a \in Addrs /\ h[a].st = "live" /\ n <= Len(h[a].data)

\* The first n scalars at a; Unknown where the read is undefined.
Load(h, a, n) ==
    IF Valid(h, a, n) THEN SubSeq(h[a].data, 1, n)
    ELSE [i \in 1 .. n |-> UnknownF]

\* Writes vals to the first Len(vals) scalars at a.
Store(w, a, vals) ==
    IF Valid(w.heap, a, Len(vals))
    THEN [w EXCEPT !.heap[a].data =
             [i \in 1 .. Len(@) |-> IF i <= Len(vals) THEN vals[i] ELSE @[i]]]
    ELSE IF a \in Addrs /\ w.heap[a].st = "live"
    THEN Undefined([w EXCEPT !.heap[a].data =
                       [i \in 1 .. Len(@) |-> vals[i]]],
                   "write past the end of a buffer")
    ELSE Undefined(w, "write through a pointer to no live buffer")

(***************************************************************************)
(* Ref::addRef and Ref::release on samplers and methods.                   *)
(***************************************************************************)
\* sampler->addRef(), called by p
SamplerAddRef(w, p, s) ==
    IF s = Wild THEN Undefined(w, "addRef on a pointer that is no sampler")
    ELSE LET w1 == IF w.samplers[s].st = "live" THEN w
                   ELSE Undefined(w, "addRef on a destroyed sampler")
         IN  [w1 EXCEPT !.samplers[s].refCount = @ + 1,
                        !.held[p][s] = @ + 1]

\* sampler->release(), called by p
SamplerRelease(w, p, s) ==
    IF s = Wild THEN Undefined(w, "release on a pointer that is no sampler")
    ELSE LET w1 == IF w.samplers[s].st = "live" THEN w
                   ELSE Undefined(w, "release on a destroyed sampler")
         IN  [w1 EXCEPT !.samplers[s].refCount = IF @ > 0 THEN @ - 1 ELSE @,
                        !.samplers[s].st = IF w.samplers[s].refCount <= 1 THEN "dead" ELSE @,
                        !.held[p][s] = @ - 1]

\* method->addRef()
MethodAddRef(w, m) ==
    IF m = Wild THEN Undefined(w, "addRef on a pointer that is no method")
    ELSE LET w1 == IF w.methods[m].st = "live" THEN w
                   ELSE Undefined(w, "addRef on a destroyed method")
         IN  [w1 EXCEPT !.methods[m].refCount = @ + 1]

\* SAFE_RELEASE(_value.method)
SafeReleaseMethod(w, p) ==
    LET m == AsMethod(w.value[p])
    IN  CASE m = NULL -> w
          [] m = Wild -> Undefined([w EXCEPT !.value[p] = Zero],
                                   "release on a pointer that is no method")
          [] OTHER    -> LET w1 == IF w.methods[m].st = "live" THEN w
                                       ELSE Undefined(w, "release on a destroyed method")
                         IN  [w1 EXCEPT !.methods[m].refCount = IF @ > 0 THEN @ - 1 ELSE @,
                                        !.methods[m].st = IF w.methods[m].refCount <= 1 THEN "dead" ELSE @,
                                        !.value[p] = Zero]

(***************************************************************************)
(* MaterialParameter::clearValue                                           *)
(***************************************************************************)
\* A clearValue without its SAFE_DELETE_ARRAY.
clearValueNoDelete(w, p) ==
    LET w1 == IF w.dynamic[p]
              THEN [w EXCEPT !.dynamic[p] = FALSE, !.count[p] = 1]
              ELSE IF w.type[p] = "SAMPLER" /\ AsSampler(w.value[p]) # NULL
              THEN SamplerRelease(w, p, AsSampler(w.value[p]))
              ELSE w
    IN  [w1 EXCEPT !.value[p] = Zero, !.type[p] = "NONE"]

\* A clearValue that leaves _dynamic as it is.
clearValueKeepFlag(w, p) ==
    LET t  == w.type[p]
        w1 == IF w.dynamic[p]
              THEN LET d == CASE t \in {"FLOAT", "INT", "VECTOR2", "VECTOR3", "VECTOR4",
                                        "MATRIX"} -> SafeDeleteArray(w, p)
                              [] t = "METHOD" -> SafeReleaseMethod(w, p)
                              [] OTHER -> w
                   IN  [d EXCEPT !.count[p] = 1]
              ELSE IF t = "SAMPLER" /\ AsSampler(w.value[p]) # NULL
              THEN SamplerRelease(w, p, AsSampler(w.value[p]))
              ELSE w
    IN  [w1 EXCEPT !.value[p] = Zero, !.type[p] = "NONE"]

clearValue(w, p) ==
    LET t  == w.type[p]
        w1 == IF w.dynamic[p]
              THEN LET d == CASE t \in {"FLOAT", "VECTOR2", "VECTOR3", "VECTOR4", "MATRIX"}
                                   -> SafeDeleteArray(w, p)
                              [] t = "INT" -> SafeDeleteArray(w, p)
                              [] t = "METHOD" -> SafeReleaseMethod(w, p)
                              [] OTHER -> w
                   IN  [d EXCEPT !.dynamic[p] = FALSE, !.count[p] = 1]
              ELSE CASE t = "SAMPLER" ->
                          IF AsSampler(w.value[p]) # NULL
                          THEN SamplerRelease(w, p, AsSampler(w.value[p]))
                          ELSE w
                     [] OTHER -> w
    IN  [w1 EXCEPT !.value[p] = Zero, !.type[p] = "NONE"]

(***************************************************************************)
(* MaterialParameter::setValue, one operator per overload.                 *)
(***************************************************************************)
\* setValue(float value)
setValueFloat(w, p, f) ==
    [clearValue(w, p) EXCEPT !.value[p] = FloatVal(f), !.type[p] = "FLOAT"]

\* setValue(int value)
setValueInt(w, p, i) ==
    [clearValue(w, p) EXCEPT !.value[p] = IntVal(i), !.type[p] = "INT"]

\* setValue(const float* values, unsigned int count)
setValueFloatArray(w, p, a, n) ==
    [clearValue(w, p) EXCEPT !.value[p] = PtrVal(a), !.count[p] = n,
                             !.type[p] = "FLOAT"]

\* setValue(const int* values, unsigned int count)
setValueIntArray(w, p, a, n) ==
    [clearValue(w, p) EXCEPT !.value[p] = PtrVal(a), !.count[p] = n,
                             !.type[p] = "INT"]

\* A const Vector& or const Matrix& argument: an object of the caller's
\* (at = "caller", its floats in vec) or floats in a heap buffer (at = "heap").
ByValue(vec) == [at |-> "caller", vec |-> vec, addr |-> NULL]

AtAddr(a) == [at |-> "heap", vec |-> <<>>, addr |-> a]

\* memcpy(array, &value.x, sizeof(float) * k): the k floats read through ref.
ReadRef(w, ref, k) ==
    IF ref.at = "caller" THEN [w |-> w, vec |-> ref.vec]
    ELSE [w   |-> IF Valid(w.heap, ref.addr, k) THEN w
                  ELSE Undefined(w, "read through a pointer to no live buffer"),
          vec |-> Load(w.heap, ref.addr, k)]

\* The single-vector overloads: the value is copied into a new float[k].
setValueVector(w, p, t, ref) ==
    LET c == clearValue(w, p)
        r == ReadRef(c, ref, Components(t))
    IN  [NewArray(r.w, r.vec) EXCEPT !.value[p] = PtrVal(NewAddr(c.heap)),
                                     !.dynamic[p] = TRUE, !.count[p] = 1,
                                     !.type[p] = t]

\* An array overload that clears the cell before it looks at the pointer.
setValueArrayClearFirst(w, p, t, a, n) ==
    LET c == clearValue(w, p)
    IN  IF a = NULL THEN Fatal(c, "assert")
        ELSE [c EXCEPT !.value[p] = PtrVal(a), !.count[p] = n, !.type[p] = t]

\* The vector and matrix array overloads: the caller's pointer is kept.
setValueArray(w, p, t, a, n) ==
    IF a = NULL THEN Fatal(w, "assert")
    ELSE [clearValue(w, p) EXCEPT !.value[p] = PtrVal(a), !.count[p] = n,
                                  !.type[p] = t]

\* setValue(const Vector2& value)
setValueVector2(w, p, ref) == setValueVector(w, p, "VECTOR2", ref)

\* setValue(const Vector2* values, unsigned int count)
setValueVector2Array(w, p, a, n) == setValueArray(w, p, "VECTOR2", a, n)

\* setValue(const Vector3& value)
setValueVector3(w, p, ref) == setValueVector(w, p, "VECTOR3", ref)

\* setValue(const Vector3* values, unsigned int count)
setValueVector3Array(w, p, a, n) == setValueArray(w, p, "VECTOR3", a, n)

\* setValue(const Vector4& value)
setValueVector4(w, p, ref) == setValueVector(w, p, "VECTOR4", ref)

\* setValue(const Vector4* values, unsigned int count)
setValueVector4Array(w, p, a, n) == setValueArray(w, p, "VECTOR4", a, n)

\* setValue(const Matrix& value)
MatrixInPlace(w, p) ==
    /\ w.dynamic[p]
    /\ w.count[p] = 1
    /\ w.type[p] = "MATRIX"
    /\ AsPtr(w.value[p]) # NULL

setValueMatrix(w, p, ref) ==
    LET w1 == IF MatrixInPlace(w, p) THEN w
              ELSE LET c == clearValue(w, p)
                   IN  [NewArray(c, [i \in 1 .. 16 |-> <<0, 0>>])
                          EXCEPT !.value[p] = PtrVal(NewAddr(c.heap))]
        r  == ReadRef(w1, ref, 16)
        w2 == Store(r.w, AsPtr(w1.value[p]), r.vec)
    IN  [w2 EXCEPT !.dynamic[p] = TRUE, !.count[p] = 1, !.type[p] = "MATRIX"]

\* setValue(const Matrix* values, unsigned int count)
setValueMatrixArray(w, p, a, n) == setValueArray(w, p, "MATRIX", a, n)

\* setValue(const Texture::Sampler* sampler)
setValueSampler(w, p, s) ==
    LET c == clearValue(w, p)
    IN  IF s # NULL
        THEN [SamplerAddRef(c, p, s) EXCEPT !.value[p] = SamplerVal(s),
                                            !.type[p] = "SAMPLER"]
        ELSE c

\* Whether Texture::Sampler::create still has a sampler to hand out.
CanCreate(ss) == \E s \in SamplerIds : ss[s].st = "unalloc"

\* Texture::Sampler::create: a new sampler holding the creator's reference.
NewSampler(ss) == CHOOSE s \in SamplerIds :
                     /\ ss[s].st = "unalloc"
                     /\ \A r \in SamplerIds : ss[r].st = "unalloc" => s <= r

\* setValue(const char* texturePath, bool generateMipmaps); created says whether
\* Texture::Sampler::create returns a sampler.
setValueTexturePath(w, p, texturePath, created) ==
    IF texturePath # NULL
    THEN LET c == clearValue(w, p)
             s == NewSampler(c.samplers)
         IN  IF created
             THEN [c EXCEPT !.samplers[s] = [st |-> "live", refCount |-> 1],
                            !.held[p][s] = @ + 1,
                            !.value[p] = SamplerVal(s),
                            !.type[p] = "SAMPLER"]
             ELSE c
    ELSE w


(***************************************************************************)
(* MaterialParameter::cloneInto                                            *)
(***************************************************************************)
\* A cloneInto that copies the members and the union as they are.
cloneIntoShallow(w, p, q, fits) ==
    [w EXCEPT !.type[q] = w.type[p], !.count[q] = w.count[p],
              !.dynamic[q] = w.dynamic[p], !.value[q] = w.value[p],
              !.uniform[q] = w.uniform[p]]

\* setValue(_value.floatValue) and setValue(_value.intValue) on a union that
\* holds a pointer: the scalar passed is the pointer's low 32 bits, and it is
\* written over a zeroed union, so the target holds the pointer again when the
\* pointer fits in 32 bits.
setValueBits(w, p, t, u) ==
    [clearValue(w, p) EXCEPT !.value[p] = u, !.type[p] = t]

\* fits: the addresses of the build and of this run fit in 32 bits.
cloneInto(w, p, q, fits) ==
    LET t   == w.type[p]
        n   == w.count[p]
        u   == w.value[p]
        w1  == [w EXCEPT !.type[q] = t, !.count[q] = n,
                         !.dynamic[q] = w.dynamic[p],
                         !.uniform[q] = w.uniform[p]]
    IN  CASE t = "NONE"    -> w1
          [] t = "FLOAT"   -> IF u.tag = "ptr" /\ fits THEN setValueBits(w1, q, t, u)
                              ELSE setValueFloat(w1, q, AsFloat(u))
          [] t = "INT"     -> IF u.tag = "ptr" /\ fits THEN setValueBits(w1, q, t, u)
                              ELSE setValueInt(w1, q, AsInt(u))
          [] t = "VECTOR2" -> IF n = 1
                              THEN IF AsPtr(u) = NULL THEN Fatal(w1, "assert")
                                   ELSE setValueVector2(w1, q, AtAddr(AsPtr(u)))
                              ELSE setValueVector2Array(w1, q, AsPtr(u), n)
          [] t = "VECTOR3" -> IF n = 1
                              THEN IF AsPtr(u) = NULL THEN Fatal(w1, "assert")
                                   ELSE setValueVector3(w1, q, AtAddr(AsPtr(u)))
                              ELSE setValueVector3Array(w1, q, AsPtr(u), n)
          [] t = "VECTOR4" -> IF n = 1
                              THEN IF AsPtr(u) = NULL THEN Fatal(w1, "assert")
                                   ELSE setValueVector4(w1, q, AtAddr(AsPtr(u)))
                              ELSE setValueVector4Array(w1, q, AsPtr(u), n)
          [] t = "MATRIX"  -> IF n = 1
                              THEN IF AsPtr(u) = NULL THEN Fatal(w1, "assert")
                                   ELSE setValueMatrix(w1, q, AtAddr(AsPtr(u)))
                              ELSE setValueMatrixArray(w1, q, AsPtr(u), n)
          [] t = "SAMPLER" -> setValueSampler(w1, q, AsSampler(u))
          [] t = "METHOD"  -> IF AsMethod(u) = NULL
                              THEN Fatal([w1 EXCEPT !.value[q] = u], "assert")
                              ELSE MethodAddRef([w1 EXCEPT !.value[q] = u], AsMethod(u))

\* Whether p.cloneInto(&q) reaches a new[].
CloneAllocates(w, p, q) ==
    /\ w.count[p] = 1
    /\ \/ w.type[p] \in {"VECTOR2", "VECTOR3", "VECTOR4"}
       \/ /\ w.type[p] = "MATRIX"
          /\ ~(w.dynamic[p] /\ AsPtr(w.value[q]) # NULL)

(***************************************************************************)
(* AnimationValue: componentCount floats, read and written by index, or in *)
(* bulk from a float pointer at an offset of the AnimationValue's array.   *)
(***************************************************************************)
\* AnimationValue* value when it is NULL: no array of floats.
NoValue == << <<>> >>

\* AnimationValue::getFloat(index)
AVGetFloat(a, index) == a[index + 1]

\* AnimationValue::setFloat(index, value)
AVSetFloat(a, index, f) == [a EXCEPT ![index + 1] = f]

\* AnimationValue::setFloat(value, offset, length)
AVSetFloats(a, src, offset, length) ==
    [i \in 1 .. Len(a) |->
        IF offset < i /\ i <= offset + length THEN src[i - offset] ELSE a[i]]

(***************************************************************************)
(* The animation target interface of MaterialParameter.                    *)
(***************************************************************************)
ANIMATE_UNIFORM == 1

PropertyIds == {ANIMATE_UNIFORM, ANIMATE_UNIFORM + 1}

\* unsigned int arithmetic.  A product of the model is at most 16 * MaxCount,
\* far from 2^32, the width at which the code's products wrap, so the product
\* is the mathematical one.
U32(n) == n

\* A component count that takes every vector for a Vector3.
componentCountOfVector3(w, p, propertyId) ==
    IF propertyId = ANIMATE_UNIFORM
    THEN CASE w.type[p] \in {"NONE", "MATRIX", "SAMPLER", "METHOD"} -> 0
           [] w.type[p] \in {"FLOAT", "INT"} -> w.count[p]
           [] OTHER -> U32(3 * w.count[p])
    ELSE 0

\* getAnimationPropertyComponentCount(propertyId)
getAnimationPropertyComponentCount(w, p, propertyId) ==
    IF propertyId = ANIMATE_UNIFORM
    THEN CASE w.type[p] \in {"NONE", "MATRIX", "SAMPLER", "METHOD"} -> 0
           [] w.type[p] \in {"FLOAT", "INT"} -> w.count[p]
           [] w.type[p] = "VECTOR2" -> U32(2 * w.count[p])
           [] w.type[p] = "VECTOR3" -> U32(3 * w.count[p])
           [] w.type[p] = "VECTOR4" -> U32(4 * w.count[p])
    ELSE 0

\* for (i = 0; i < n; i++) value->setFloat(_value.floatPtrValue, i * k, k)
RECURSIVE ReadLoop(_, _, _, _, _)
ReadLoop(a, src, k, i, n) ==
    IF i >= n THEN a ELSE ReadLoop(AVSetFloats(a, src, i * k, k), src, k, i + 1, n)

\* A getAnimationPropertyValue that clears channel 0 of the AnimationValue
\* whatever the kind and the property id.
getAnimationPropertyValueAnyKind(w, p, propertyId) ==
    IF Len(w.av) > 0 THEN [w EXCEPT !.av = AVSetFloat(@, 0, <<0, 0>>)] ELSE w

\* getAnimationPropertyValue(propertyId, value): value is w.av
getAnimationPropertyValue(w, p, propertyId) ==
    LET t == w.type[p]
        n == w.count[p]
        u == w.value[p]
        k == Components(t)
        deref(m) == IF Valid(w.heap, AsPtr(u), m) THEN w
                    ELSE Undefined(w, "read through a pointer to no live buffer")
    IN  IF w.av = NoValue THEN Fatal(w, "assert")
        ELSE IF propertyId # ANIMATE_UNIFORM THEN w
        ELSE CASE t = "FLOAT" ->
                    IF n = 1 THEN [w EXCEPT !.av = AVSetFloat(@, 0, AsFloat(u))]
                    ELSE IF AsPtr(u) = NULL THEN Fatal(w, "assert")
                    ELSE IF n = 0 THEN w
                    ELSE [deref(n) EXCEPT !.av =
                            [i \in 1 .. Len(@) |->
                               IF i <= n THEN Load(w.heap, AsPtr(u), n)[i] ELSE @[i]]]
               [] t = "INT" ->
                    IF n = 1 THEN [w EXCEPT !.av = AVSetFloat(@, 0, IntToFloat(AsInt(u)))]
                    ELSE IF AsPtr(u) = NULL THEN Fatal(w, "assert")
                    ELSE IF n = 0 THEN w
                    ELSE [deref(n) EXCEPT !.av =
                            [i \in 1 .. Len(@) |->
                               IF i <= n
                               THEN IF Valid(w.heap, AsPtr(u), n)
                                    THEN IntToFloat(w.heap[AsPtr(u)].data[i])
                                    ELSE UnknownF
                               ELSE @[i]]]
               [] t \in {"VECTOR2", "VECTOR3", "VECTOR4"} ->
                    IF n = 0 THEN w
                    ELSE [deref(k) EXCEPT !.av =
                            ReadLoop(@, Load(w.heap, AsPtr(u), k), k, 0, n)]
               [] OTHER -> w

\* An applyAnimationValue that stores the input whatever the weight.
applyAnimationValueCopy(w, p, a, blendWeight, components) ==
    LET cnt == U32(w.count[p] * components)
        ptr == AsPtr(w.value[p])
    IN  IF ptr = NULL THEN Fatal(w, "assert")
        ELSE IF cnt = 0 THEN w
        ELSE IF Valid(w.heap, ptr, cnt)
        THEN Store(w, ptr, [i \in 1 .. cnt |-> AVGetFloat(a, i - 1)])
        ELSE Undefined(w, "write through a pointer to no live buffer")

\* An applyAnimationValue that blends every channel with input channel 0.
applyAnimationValueFirst(w, p, a, blendWeight, components) ==
    LET cnt == U32(w.count[p] * components)
        ptr == AsPtr(w.value[p])
        cur == Load(w.heap, ptr, cnt)
    IN  IF ptr = NULL THEN Fatal(w, "assert")
        ELSE IF cnt = 0 THEN w
        ELSE IF Valid(w.heap, ptr, cnt)
        THEN Store(w, ptr, [i \in 1 .. cnt |->
                              Lerp(blendWeight, cur[i], AVGetFloat(a, 0))])
        ELSE Undefined(w, "write through a pointer to no live buffer")

\* applyAnimationValue(value, blendWeight, components): value is a
applyAnimationValue(w, p, a, blendWeight, components) ==
    LET cnt == U32(w.count[p] * components)
        ptr == AsPtr(w.value[p])
        cur == Load(w.heap, ptr, cnt)
    IN  IF ptr = NULL THEN Fatal(w, "assert")
        ELSE IF cnt = 0 THEN w
        ELSE IF Valid(w.heap, ptr, cnt)
        THEN Store(w, ptr, [i \in 1 .. cnt |->
                              Lerp(blendWeight, cur[i], AVGetFloat(a, i - 1))])
        ELSE Undefined(w, "write through a pointer to no live buffer")

\* A setAnimationPropertyValue that blends vectors with any weight.
setAnimationPropertyValueAnyWeight(w, p, propertyId, a, blendWeight) ==
    IF propertyId = ANIMATE_UNIFORM /\ w.type[p] \in {"VECTOR2", "VECTOR3", "VECTOR4"}
    THEN applyAnimationValue(w, p, a, blendWeight, Components(w.type[p]))
    ELSE w

\* setAnimationPropertyValue(propertyId, value, blendWeight): value is a
setAnimationPropertyValue(w, p, propertyId, a, blendWeight) ==
    LET t == w.type[p]
        n == w.count[p]
        u == w.value[p]
        ptr == AsPtr(u)
    IN  IF a = NoValue THEN Fatal(w, "assert")
        ELSE IF ~InUnit(blendWeight) THEN Fatal(w, "assert")
        ELSE IF propertyId # ANIMATE_UNIFORM THEN w
        ELSE CASE t = "FLOAT" ->
                    IF n = 1
                    THEN [w EXCEPT !.value[p] =
                            FloatOver(u, Lerp(blendWeight, AsFloat(u), AVGetFloat(a, 0)))]
                    ELSE applyAnimationValue(w, p, a, blendWeight, 1)
               [] t = "INT" ->
                    IF n = 1
                    THEN [w EXCEPT !.value[p] =
                            IntOver(u, FloatToInt(Lerp(blendWeight, IntToFloat(AsInt(u)),
                                                       AVGetFloat(a, 0))))]
                    ELSE IF ptr = NULL THEN Fatal(w, "assert")
                    ELSE IF n = 0 THEN w
                    ELSE IF Valid(w.heap, ptr, n)
                    THEN Store(w, ptr, [i \in 1 .. n |->
                            FloatToInt(Lerp(blendWeight, IntToFloat(w.heap[ptr].data[i]),
                                            AVGetFloat(a, i - 1)))])
                    ELSE Undefined(w, "write through a pointer to no live buffer")
               [] t = "VECTOR2" -> applyAnimationValue(w, p, a, blendWeight, 2)
               [] t = "VECTOR3" -> applyAnimationValue(w, p, a, blendWeight, 3)
               [] t = "VECTOR4" -> applyAnimationValue(w, p, a, blendWeight, 4)
               [] OTHER -> w

(***************************************************************************)
(* Effects and their uniforms.  An effect exposes a uniform for some of    *)
(* the names; a uniform handle knows its effect.                           *)
(***************************************************************************)
Effects == {1, 2}

Names == {1, 2}

\* The names effect e has a uniform for: the first effect for every name,
\* the second for the first name only.
Exposed(e) == IF e = 1 THEN Names ELSE {1}

\* _uniform == NULL
NullUniform == [effect |-> NULL, name |-> NULL]

\* Effect::getUniform(name)
getUniform(e, n) == IF n \in Exposed(e) THEN [effect |-> e, name |-> n] ELSE NullUniform

\* Uniform::getEffect()
getEffect(h) == h.effect

\* Effect::setValue(uniform, ...): one upload, of arg (a scalar, a pointer, a
\* sampler or a method) and of the cnt elements data read through a pointer.
Upload(w, call, e, h, arg, cnt, data) ==
    [w EXCEPT !.out.uploads =
        Append(@, [call |-> call, effect |-> e, uniform |-> h, arg |-> arg,
                   count |-> cnt, data |-> data])]

\* The array uploads: count elements of kind t are read at ptr.
UploadArray(w, call, e, h, t, ptr, n) ==
    LET m  == n * Components(t)
        ok == m = 0 \/ Valid(w.heap, ptr, m)
        w1 == IF ok THEN w
              ELSE Undefined(w, "read through a pointer to no live buffer")
        d  == IF ~ok THEN [i \in 1 .. m |-> IF t = "INT" THEN Unknown ELSE UnknownF]
              ELSE IF m = 0 THEN <<>>
              ELSE SubSeq(w.heap[ptr].data, 1, m)
    IN  Upload(w1, call, e, h, ptr, n, d)

(***************************************************************************)
(* MaterialParameter::bind                                                 *)
(***************************************************************************)
\* A bind that uploads through the cached uniform whatever effect it is of.
bindCached(w, p, effect) ==
    LET h == IF w.uniform[p] = NullUniform THEN getUniform(effect, w.name[p])
             ELSE w.uniform[p]
        w1 == [w EXCEPT !.uniform[p] = h]
    IN  IF h = NullUniform THEN [w1 EXCEPT !.out.warn = TRUE]
        ELSE Upload(w1, "float", effect, h, AsFloat(w.value[p]), 1, <<>>)

\* A bind that uploads every kind of cell but NONE as one float.
bindSingleValue(w, p, effect) ==
    LET resolve == w.uniform[p] = NullUniform \/ getEffect(w.uniform[p]) # effect
        h  == IF resolve THEN getUniform(effect, w.name[p]) ELSE w.uniform[p]
        w1 == [w EXCEPT !.uniform[p] = h]
    IN  IF resolve /\ h = NullUniform THEN [w1 EXCEPT !.out.warn = TRUE]
        ELSE IF w.type[p] = "NONE" THEN Fatal(w1, "error")
        ELSE Upload(w1, "float", effect, h, AsFloat(w.value[p]), 1, <<>>)

bind(w, p, effect) ==
    IF effect = NULL THEN Fatal(w, "assert")
    ELSE
    LET resolve == w.uniform[p] = NullUniform \/ getEffect(w.uniform[p]) # effect
        h  == IF resolve THEN getUniform(effect, w.name[p]) ELSE w.uniform[p]
        w1 == [w EXCEPT !.uniform[p] = h]
        t  == w.type[p]
        n  == w.count[p]
        u  == w.value[p]
    IN  IF resolve /\ h = NullUniform THEN [w1 EXCEPT !.out.warn = TRUE]
        ELSE CASE t = "FLOAT" ->
                    IF n = 1 THEN Upload(w1, "float", effect, h, AsFloat(u), 1, <<>>)
                    ELSE UploadArray(w1, "float[]", effect, h, t, AsPtr(u), n)
               [] t = "INT" ->
                    IF n = 1 THEN Upload(w1, "int", effect, h, AsInt(u), 1, <<>>)
                    ELSE UploadArray(w1, "int[]", effect, h, t, AsPtr(u), n)
               [] t = "VECTOR2" -> UploadArray(w1, "Vector2[]", effect, h, t, AsPtr(u), n)
               [] t = "VECTOR3" -> UploadArray(w1, "Vector3[]", effect, h, t, AsPtr(u), n)
               [] t = "VECTOR4" -> UploadArray(w1, "Vector4[]", effect, h, t, AsPtr(u), n)
               [] t = "MATRIX"  -> UploadArray(w1, "Matrix[]", effect, h, t, AsPtr(u), n)
               [] t = "SAMPLER" ->
                    LET s  == AsSampler(u)
                        w2 == IF s \in SamplerIds /\ w1.samplers[s].st = "live" THEN w1
                              ELSE Undefined(w1, "upload of a pointer to no live sampler")
                    IN  Upload(w2, "sampler", effect, h, s, 1, <<>>)
               [] t = "METHOD" ->
                    LET m  == AsMethod(u)
                        w2 == IF m \in MethodIds /\ w1.methods[m].st = "live" THEN w1
                              ELSE Undefined(w1, "call through a pointer to no live method")
                    IN  IF m = NULL THEN Fatal(w1, "assert")
                        ELSE Upload(w2, "method", effect, h, m, 1, <<>>)
               [] OTHER -> Fatal(w1, "error")

(***************************************************************************)
(* MaterialParameter::bindValue, the overload that takes a binding name.   *)
(***************************************************************************)
\* The bindings bindValue knows, each with the floats its accessor returns.
\* const char* binding when it is NULL: the pointer to no string.
NullBinding == "(null)"

BindingTable ==
    [b \in {"&Node::getBackVector", "&Node::getDownVector",
            "&Node::getTranslationWorld", "&Node::getTranslationView",
            "&Node::getForwardVector", "&Node::getForwardVectorWorld",
            "&Node::getForwardVectorView", "&Node::getLeftVector",
            "&Node::getRightVector", "&Node::getRightVectorWorld",
            "&Node::getUpVector", "&Node::getUpVectorWorld",
            "&Node::getActiveCameraTranslationWorld",
            "&Node::getActiveCameraTranslationView"} |-> 3]
    @@
    [b \in {"&Node::getScaleX", "&Node::getScaleY", "&Node::getScaleZ",
            "&Node::getTranslationX", "&Node::getTranslationY",
            "&Node::getTranslationZ"} |-> 1]

\* Whether new MethodValueBinding still has a method to hand out.
CanBind(ms) == \E m \in MethodIds : ms[m].st = "unalloc"

NewMethod(ms) == CHOOSE m \in MethodIds :
                    /\ ms[m].st = "unalloc"
                    /\ \A r \in MethodIds : ms[r].st = "unalloc" => m <= r

\* bindValue<Node, T>(node, &Node::accessor): the parameter holds the one
\* reference on a new method binding of the accessor.
bindValueMethod(w, p, binding) ==
    LET c == clearValue(w, p)
        m == NewMethod(c.methods)
    IN  [c EXCEPT !.methods[m] = [st |-> "live", refCount |-> 1,
                                  binding |-> binding,
                                  arity |-> BindingTable[binding]],
                  !.value[p] = MethodVal(m),
                  !.dynamic[p] = TRUE,
                  !.type[p] = "METHOD"]

\* A bindValue that takes the accessor's name without its "&Node::".
bindValueBareName(w, p, binding) ==
    IF binding = NullBinding THEN Fatal(w, "assert")
    ELSE IF binding \in {"getTranslationWorld", "getScaleX"}
    THEN bindValueMethod(w, p, "&Node::" \o binding)
    ELSE Fatal(w, "error")

bindValue(w, p, binding) ==
    IF binding = NullBinding THEN Fatal(w, "assert")
    ELSE IF binding \in DOMAIN BindingTable
    THEN bindValueMethod(w, p, binding)
    ELSE Fatal(w, "error")

(***************************************************************************)
(* The script entry points of AnimationValue (lua_AnimationValue.cpp).     *)
(* A Lua value is [t, v]: its lua_type and, for a number, the number; for  *)
(* a light userdata, the address of the floats it points to; for a full    *)
(* userdata, the class of the object it wraps.                             *)
(***************************************************************************)
\* The class ids of full userdata: AnimationValue and some other class.
AnimationValueClass == 1

OtherClass == 2

LuaNumber(n) == [t |-> "number", v |-> n]

LuaString == [t |-> "string", v |-> 0]

LuaTable == [t |-> "table", v |-> 0]

LuaLight(a) == [t |-> "lightuserdata", v |-> a]

LuaUserdata(c) == [t |-> "userdata", v |-> c]

\* The floats of the one table the script passes.
TableFloats == <<IntToFloat(4), IntToFloat(5)>>

\* lua_type(state, i)
lua_type(stack, i) == stack[i].t

\* luaL_checkunsigned(state, i) on a number that is a non-negative integer
luaL_checkunsigned(stack, i) == U32(stack[i].v)

\* (float)luaL_checknumber(state, i)
luaL_checknumber(stack, i) == IntToFloat(stack[i].v)

\* lua_pushstring(state, message); lua_error(state): the script error ends the
\* entry point.
lua_error(w, message) == [w EXCEPT !.out.error = message]

\* getInstance(state): luaL_checkudata(state, 1, "AnimationValue") raises a
\* script error on a userdata of another class.
IsInstance(stack) == stack[1] = LuaUserdata(AnimationValueClass)

\* ScriptUtil::getFloatPointer(2): the floats of the table, or the pointer
\* the light userdata holds.
FloatPointerData(w, stack) ==
    IF lua_type(stack, 2) = "table" THEN TableFloats
    ELSE IF stack[2].v \in Addrs /\ w.heap[stack[2].v].st = "live"
    THEN w.heap[stack[2].v].data
    ELSE <<>>

\* A call of a member function of the AnimationValue is recorded in out.calls.
InstanceCall(w, fn, a, b, data) ==
    [w EXCEPT !.out.calls = Append(@, [fn |-> fn, a |-> a, b |-> b, data |-> data])]

\* instance->getFloat(index)
InstanceGetFloat(w, index) ==
    LET c == InstanceCall(w, "getFloat(index)", index, 0, <<>>)
    IN  IF index < Len(w.av)
        THEN [c EXCEPT !.out.ret = <<AVGetFloat(w.av, index)>>]
        ELSE Fatal(c, "assert")

\* instance->setFloat(index, value)
InstanceSetFloat(w, index, f) ==
    LET c == InstanceCall(w, "setFloat(index, value)", index, 0, <<f>>)
    IN  IF index < Len(w.av)
        THEN [c EXCEPT !.av = AVSetFloat(@, index, f)]
        ELSE Fatal(c, "assert")

\* instance->getFloat(value, offset, length): copies length floats of the
\* AnimationValue, from offset on, to value.
InstanceGetFloats(w, stack, offset, length) ==
    LET c == InstanceCall(w, "getFloat(value, offset, length)", offset, length,
                          FloatPointerData(w, stack))
        d == [i \in 1 .. length |-> w.av[offset + i]]
    IN  IF offset < Len(w.av) /\ offset + length <= Len(w.av)
        THEN IF lua_type(stack, 2) = "table" \/ length = 0 THEN c
             ELSE Store(c, stack[2].v, d)
        ELSE Fatal(c, "assert")

\* instance->setFloat(value, offset, length): copies length floats of value
\* into the AnimationValue at offset.
InstanceSetFloats(w, stack, offset, length) ==
    LET src == FloatPointerData(w, stack)
        c   == InstanceCall(w, "setFloat(value, offset, length)", offset, length, src)
    IN  IF offset < Len(w.av) /\ offset + length <= Len(w.av)
        THEN IF length <= Len(src)
             THEN [c EXCEPT !.av = AVSetFloats(@, src, offset, length)]
             ELSE Undefined(c, "read through a pointer to no live buffer")
        ELSE Fatal(c, "assert")

\* A setFloat entry point that does not look at the types of its arguments.
lua_AnimationValue_setFloatAnyType(w, stack) ==
    CASE Len(stack) = 3 ->
            InstanceSetFloat(w, luaL_checkunsigned(stack, 2), luaL_checknumber(stack, 3))
      [] Len(stack) = 4 ->
            InstanceSetFloats(w, stack, luaL_checkunsigned(stack, 3),
                              luaL_checkunsigned(stack, 4))
      [] OTHER -> lua_error(w, "Invalid number of parameters (expected 3 or 4).")

\* lua_AnimationValue_getFloat(state): stack holds the arguments.
lua_AnimationValue_getFloat(w, stack) ==
    LET paramCount == Len(stack)
        failed == "lua_AnimationValue_getFloat - Failed to match the given parameters to a valid function signature."
    IN  CASE paramCount = 2 ->
                IF lua_type(stack, 1) = "userdata" /\ lua_type(stack, 2) = "number"
                THEN IF IsInstance(stack)
                     THEN InstanceGetFloat(w, luaL_checkunsigned(stack, 2))
                     ELSE lua_error(w, "'AnimationValue' expected.")
                ELSE lua_error(w, failed)
          [] paramCount = 4 ->
                IF /\ lua_type(stack, 1) = "userdata"
                   /\ lua_type(stack, 2) \in {"table", "lightuserdata"}
                   /\ lua_type(stack, 3) = "number"
                   /\ lua_type(stack, 4) = "number"
                THEN IF IsInstance(stack)
                     THEN InstanceGetFloats(w, stack, luaL_checkunsigned(stack, 3),
                                            luaL_checkunsigned(stack, 4))
                     ELSE lua_error(w, "'AnimationValue' expected.")
                ELSE lua_error(w, failed)
          [] OTHER -> lua_error(w, "Invalid number of parameters (expected 2 or 4).")

\* lua_AnimationValue_setFloat(state): stack holds the arguments.
lua_AnimationValue_setFloat(w, stack) ==
    LET paramCount == Len(stack)
        failed == "lua_AnimationValue_setFloat - Failed to match the given parameters to a valid function signature."
    IN  CASE paramCount = 3 ->
                IF /\ lua_type(stack, 1) = "userdata"
                   /\ lua_type(stack, 2) = "number"
                   /\ lua_type(stack, 3) = "number"
                THEN IF IsInstance(stack)
                     THEN InstanceSetFloat(w, luaL_checkunsigned(stack, 2),
                                           luaL_checknumber(stack, 3))
                     ELSE lua_error(w, "'AnimationValue' expected.")
                ELSE lua_error(w, failed)
          [] paramCount = 4 ->
                IF /\ lua_type(stack, 1) = "userdata"
                   /\ lua_type(stack, 2) \in {"table", "lightuserdata"}
                   /\ lua_type(stack, 3) = "number"
                   /\ lua_type(stack, 4) = "number"
                THEN IF IsInstance(stack)
                     THEN InstanceSetFloats(w, stack, luaL_checkunsigned(stack, 3),
                                            luaL_checkunsigned(stack, 4))
                     ELSE lua_error(w, "'AnimationValue' expected.")
                ELSE lua_error(w, failed)
          [] OTHER -> lua_error(w, "Invalid number of parameters (expected 3 or 4).")

(***************************************************************************)
(* The state after construction: MaterialParameter(name) on every          *)
(* parameter, the caller's arrays and samplers in place.                   *)
(***************************************************************************)
NoOp == [op |-> "constructor", after |-> "none", p |-> 0, q |-> 0, flag |-> FALSE,
         id |-> 0, pre |-> <<>>, input |-> <<>>, weight |-> <<0, 0>>,
         binding |-> ""]

InitObjects ==
    /\ alive = [p \in Params |-> TRUE]
    /\ type = [p \in Params |-> "NONE"]
    /\ count = [p \in Params |-> 1]
    /\ dynamic = [p \in Params |-> FALSE]
    /\ value = [p \in Params |-> Zero]
    /\ heap = [a \in Addrs |->
                 IF a \in CallerAddrs
                 THEN [st |-> "live", data |-> CallerData(a), frees |-> 0]
                 ELSE [st |-> "unalloc", data |-> <<>>, frees |-> 0]]
    /\ samplers = [s \in SamplerIds |->
                     IF s \in CallerSamplers
                     THEN [st |-> "live", refCount |-> 1]
                     ELSE [st |-> "unalloc", refCount |-> 0]]
    /\ methods = [m \in MethodIds |->
                    [st |-> "unalloc", refCount |-> 0, binding |-> "", arity |-> 0]]
    /\ held = [p \in Params |-> [s \in SamplerIds |-> 0]]
    /\ uniform = [p \in Params |-> NullUniform]
    /\ out = NoOut
    /\ ub = {}
    /\ last = NoOp

\* No AnimationValue has been passed yet.
InitCells == InitObjects /\ av = <<>>

\* Every parameter under a name of its own.
DistinctNames == [p \in Params |-> p]

\* Runs of any length.
Init == InitCells /\ name = DistinctNames /\ fuel = 0 - 1

\* Runs of MaxOps operations.
InitAnim == InitCells /\ name = DistinctNames /\ fuel = MaxOps

\* The caller may call a member function of p: p is alive, the program has
\* not aborted, and the run has an operation left.
Ready(p) == fuel # 0 /\ alive[p] /\ out.fatal = "none"

\* One more operation: op on p (and q), recorded in last together with the
\* operation it follows.
Did(op, p, q, flag) ==
    /\ fuel' = IF fuel > 0 THEN fuel - 1 ELSE fuel
    /\ last' = [NoOp EXCEPT !.op = op, !.after = last.op, !.p = p, !.q = q,
                            !.flag = flag]
    /\ alive' = IF op = "destructor" THEN [alive EXCEPT ![p] = FALSE] ELSE alive

SetOps == {"setValue(scalar)", "setValue(array)", "setValue(vector)",
           "setValue(matrix)", "setValue(sampler)", "setValue(texturePath)"}

(***************************************************************************)
(* The caller's inputs.                                                    *)
(***************************************************************************)
FloatInputs == {IntToFloat(0), Frac(5, 1)}

IntInputs == {0, BigInt}

\* The vector or matrix (b, b+1, ...) of k floats.
Ramp(k, b) == [i \in 1 .. k |-> IntToFloat(b + i - 1)]

VectorInputs(k) == {Ramp(k, 1), Ramp(k, 4)}

MatrixInputs == {[i \in 1 .. 16 |-> IntToFloat(1)], [i \in 1 .. 16 |-> IntToFloat(2)]}

Counts == 0 .. MaxCount

\* Names the caller asks bindValue for: two of the table, one of them without
\* its "&Node::", one that is no accessor, and no name at all.
BindingInputs == {"&Node::getTranslationWorld", "&Node::getScaleX",
                  "getTranslationWorld", "bogusAccessor", NullBinding}

\* The cell's flat channels, as bind, read and blend address them.
Channels(w, p) ==
    LET t == w.type[p]
        n == w.count[p]
        u == w.value[p]
    IN  CASE t = "FLOAT" -> IF n = 1 THEN <<AsFloat(u)>> ELSE Load(w.heap, AsPtr(u), n)
          [] t = "INT"   -> IF n = 1 THEN <<AsInt(u)>>
                            ELSE IF Valid(w.heap, AsPtr(u), n)
                            THEN SubSeq(w.heap[AsPtr(u)].data, 1, n)
                            ELSE [i \in 1 .. n |-> Unknown]
          [] t \in {"VECTOR2", "VECTOR3", "VECTOR4"} ->
                            Load(w.heap, AsPtr(u), n * Components(t))
          [] OTHER       -> <<>>

(***************************************************************************)
(* Actions: one call of a member function by the caller.                   *)
(***************************************************************************)
CallSetValueFloat(p, f) ==
    /\ Ready(p)
    /\ Commit(setValueFloat(World, p, f))
    /\ Did("setValue(scalar)", p, 0, FALSE)

CallSetValueInt(p, i) ==
    /\ Ready(p)
    /\ Commit(setValueInt(World, p, i))
    /\ Did("setValue(scalar)", p, 0, FALSE)

CallSetValueFloatArray(p, a, n) ==
    /\ Ready(p)
    /\ a \in {NULL, CallerBuf("FLOAT")}
    /\ Commit(setValueFloatArray(World, p, a, n))
    /\ Did("setValue(array)", p, 0, FALSE)

CallSetValueIntArray(p, a, n) ==
    /\ Ready(p)
    /\ a \in {NULL, CallerBuf("INT")}
    /\ Commit(setValueIntArray(World, p, a, n))
    /\ Did("setValue(array)", p, 0, FALSE)

CallSetValueVector2(p, vec) ==
    /\ Ready(p)
    /\ CanAlloc(heap)
    /\ Commit(setValueVector2(World, p, ByValue(vec)))
    /\ Did("setValue(vector)", p, 0, FALSE)

CallSetValueVector2Array(p, a, n) ==
    /\ Ready(p)
    /\ a \in {NULL, CallerBuf("VECTOR2")}
    /\ Commit(setValueVector2Array(World, p, a, n))
    /\ Did("setValue(array)", p, 0, FALSE)

CallSetValueVector3(p, vec) ==
    /\ Ready(p)
    /\ CanAlloc(heap)
    /\ Commit(setValueVector3(World, p, ByValue(vec)))
    /\ Did("setValue(vector)", p, 0, FALSE)

CallSetValueVector3Array(p, a, n) ==
    /\ Ready(p)
    /\ a \in {NULL, CallerBuf("VECTOR3")}
    /\ Commit(setValueVector3Array(World, p, a, n))
    /\ Did("setValue(array)", p, 0, FALSE)

CallSetValueVector4(p, vec) ==
    /\ Ready(p)
    /\ CanAlloc(heap)
    /\ Commit(setValueVector4(World, p, ByValue(vec)))
    /\ Did("setValue(vector)", p, 0, FALSE)

CallSetValueVector4Array(p, a, n) ==
    /\ Ready(p)
    /\ a \in {NULL, CallerBuf("VECTOR4")}
    /\ Commit(setValueVector4Array(World, p, a, n))
    /\ Did("setValue(array)", p, 0, FALSE)

CallSetValueMatrix(p, mat) ==
    /\ Ready(p)
    /\ MatrixInPlace(World, p) \/ CanAlloc(heap)
    /\ Commit(setValueMatrix(World, p, ByValue(mat)))
    /\ Did("setValue(matrix)", p, 0, FALSE)

CallSetValueMatrixArray(p, a, n) ==
    /\ Ready(p)
    /\ a \in {NULL, CallerBuf("MATRIX")}
    /\ Commit(setValueMatrixArray(World, p, a, n))
    /\ Did("setValue(array)", p, 0, FALSE)

\* The caller passes NULL or a sampler it can name and that exists: one it
\* holds a reference on, or one setValue(texturePath, ...) has returned to it.
CallSetValueSampler(p, s) ==
    /\ Ready(p)
    /\ s = NULL \/ (s \in SamplerIds /\ samplers[s].st = "live")
    /\ Commit(setValueSampler(World, p, s))
    /\ Did("setValue(sampler)", p, 0, FALSE)

CallSetValueTexturePath(p, texturePath, created) ==
    /\ Ready(p)
    /\ created => CanCreate(samplers)
    /\ Commit(setValueTexturePath(World, p, texturePath, created))
    /\ Did("setValue(texturePath)", p, 0, FALSE)

\* clearValue(); flag: it follows a setValue on the same parameter.
CallClearValue(p) ==
    /\ Ready(p)
    /\ Commit(clearValue(World, p))
    /\ Did("clearValue", p, 0, last.op \in SetOps /\ last.p = p)

\* ~MaterialParameter()
Destroy(p) ==
    /\ Ready(p)
    /\ Commit(clearValue(World, p))
    /\ Did("destructor", p, 0, FALSE)

\* Whether the source's union holds a pointer that cloneInto passes on as a
\* scalar.
ClonesPointerBits(p) == type[p] \in {"FLOAT", "INT"} /\ value[p].tag = "ptr"

\* p.cloneInto(&q)
CallCloneInto(p, q, fits) ==
    /\ Ready(p) /\ alive[q] /\ p # q
    /\ fits => ClonesPointerBits(p)
    /\ CloneAllocates(World, p, q) => CanAlloc(heap)
    /\ Commit(cloneInto(World, p, q, fits))
    /\ Did("cloneInto", p, q, fits)

\* p.bind(effect)
CallBind(p, effect) ==
    /\ Ready(p)
    /\ Commit(bind(World, p, effect))
    /\ fuel' = IF fuel > 0 THEN fuel - 1 ELSE fuel
    /\ last' = [NoOp EXCEPT !.op = "bind", !.after = last.op, !.p = p,
                            !.id = effect, !.pre = Channels(World, p)]
    /\ UNCHANGED alive

\* p.bindValue(node, binding)
CallBindValue(p, binding) ==
    /\ Ready(p)
    /\ binding \in DOMAIN BindingTable => CanBind(methods)
    /\ Commit(bindValue(World, p, binding))
    /\ fuel' = IF fuel > 0 THEN fuel - 1 ELSE fuel
    /\ last' = [NoOp EXCEPT !.op = "bindValue", !.after = last.op, !.p = p,
                            !.binding = binding]
    /\ UNCHANGED alive

(***************************************************************************)
(* The animation driver: it reads the target into an AnimationValue of     *)
(* getAnimationPropertyComponentCount floats and blends such a value back. *)
(***************************************************************************)
Weights == {IntToFloat(0), Frac(1, 1), IntToFloat(1)}

\* Weights outside [0, 1]: 1.5 and -0.5.
BadWeights == {Frac(3, 1), Frac(0 - 1, 1)}

\* A float whose difference from 1.0 has to be rounded.
FarFloat == IntToFloat(2 ^ MantBits + 2)

\* The values the driver's curves produce for cc channels.
BlendInputs(cc) == {Ramp(cc, 4),
                    [i \in 1 .. cc |-> Frac(0 - 5, 1)],
                    [i \in 1 .. cc |-> FarFloat]}

\* The AnimationValues the driver reads into: a new one of cc channels, and,
\* for a target without channels, one that holds a float of an earlier use.
ReadTargets(cc) ==
    {[i \in 1 .. cc |-> <<0, 0>>]} \cup (IF cc = 0 THEN {<<FarFloat>>} ELSE {})

\* a: the floats of the AnimationValue passed, or NoValue.
CallGetAnimationPropertyValue(p, propertyId, a) ==
    LET cc == getAnimationPropertyComponentCount(World, p, propertyId)
        w0 == [World EXCEPT !.av = a]
    IN  /\ Ready(p)
        /\ a \in ReadTargets(cc) \cup {NoValue}
        /\ Commit(getAnimationPropertyValue(w0, p, propertyId))
        /\ fuel' = IF fuel > 0 THEN fuel - 1 ELSE fuel
        /\ last' = [NoOp EXCEPT !.op = "getAnimationPropertyValue",
                                !.after = last.op, !.p = p, !.id = propertyId,
                                !.input = a]
        /\ UNCHANGED alive

\* fromRead: the driver passes the AnimationValue it has just read from p.
CallSetAnimationPropertyValue(p, propertyId, a, blendWeight, fromRead) ==
    LET cc == getAnimationPropertyComponentCount(World, p, propertyId)
    IN  /\ Ready(p)
        /\ a = NoValue \/ Len(a) = cc
        /\ fromRead => /\ last.op = "getAnimationPropertyValue"
                       /\ last.p = p
                       /\ a = av
        /\ Commit(setAnimationPropertyValue(World, p, propertyId, a, blendWeight))
        /\ fuel' = IF fuel > 0 THEN fuel - 1 ELSE fuel
        /\ last' = [NoOp EXCEPT !.op = "setAnimationPropertyValue",
                                !.after = last.op, !.p = p,
                                !.flag = fromRead, !.id = propertyId,
                                !.pre = Channels(World, p), !.input = a,
                                !.weight = blendWeight]
        /\ UNCHANGED alive

(***************************************************************************)
(* The script: it calls getFloat and setFloat of the AnimationValue class  *)
(* with any arguments.                                                     *)
(***************************************************************************)
\* The values a script passes: numbers, a string, a table of floats, a light
\* userdata that points to the caller's floats, an AnimationValue and an
\* object of another class.
LuaValues == {LuaNumber(0), LuaNumber(2), LuaString, LuaTable,
              LuaLight(CallerBuf("FLOAT")), LuaUserdata(AnimationValueClass),
              LuaUserdata(OtherClass)}

LuaStacks == UNION {[1 .. k -> LuaValues] : k \in 0 .. MaxArgs}

\* The entry point is called with stack on the AnimationValue av.
DidLua(op, stack) ==
    /\ fuel' = IF fuel > 0 THEN fuel - 1 ELSE fuel
    /\ last' = [NoOp EXCEPT !.op = op, !.after = last.op, !.input = stack, !.pre = av]
    /\ UNCHANGED alive

\* The script may call an entry point: the program has not aborted and the
\* run has a call left.
LuaReady == fuel # 0 /\ out.fatal = "none"

CallLuaGetFloat(stack) ==
    /\ LuaReady
    /\ Commit(lua_AnimationValue_getFloat(World, stack))
    /\ DidLua("lua_AnimationValue_getFloat", stack)

CallLuaSetFloat(stack) ==
    /\ LuaReady
    /\ Commit(lua_AnimationValue_setFloat(World, stack))
    /\ DidLua("lua_AnimationValue_setFloat", stack)

(***************************************************************************)
(* Specifications.                                                         *)
(***************************************************************************)
\* The setValue overloads, clearValue and the destructor on parameter p.
SetStep(p) ==
    \/ \E f \in FloatInputs : CallSetValueFloat(p, f)
    \/ \E i \in IntInputs : CallSetValueInt(p, i)
    \/ \E a \in {NULL, CallerBuf("FLOAT")}, n \in Counts : CallSetValueFloatArray(p, a, n)
    \/ \E a \in {NULL, CallerBuf("INT")}, n \in Counts : CallSetValueIntArray(p, a, n)
    \/ \E vec \in VectorInputs(2) : CallSetValueVector2(p, vec)
    \/ \E a \in {NULL, CallerBuf("VECTOR2")}, n \in Counts : CallSetValueVector2Array(p, a, n)
    \/ \E vec \in VectorInputs(3) : CallSetValueVector3(p, vec)
    \/ \E a \in {NULL, CallerBuf("VECTOR3")}, n \in Counts : CallSetValueVector3Array(p, a, n)
    \/ \E vec \in VectorInputs(4) : CallSetValueVector4(p, vec)
    \/ \E a \in {NULL, CallerBuf("VECTOR4")}, n \in Counts : CallSetValueVector4Array(p, a, n)
    \/ \E mat \in MatrixInputs : CallSetValueMatrix(p, mat)
    \/ \E a \in {NULL, CallerBuf("MATRIX")}, n \in Counts : CallSetValueMatrixArray(p, a, n)
    \/ \E s \in {NULL} \cup SamplerIds : CallSetValueSampler(p, s)
    \/ \E path \in {NULL, 1}, created \in BOOLEAN : CallSetValueTexturePath(p, path, created)
    \/ \E b \in BindingInputs : CallBindValue(p, b)
    \/ CallClearValue(p)
    \/ Destroy(p)

\* One parameter, no cloneInto.
NextSet == SetStep(1)

SpecSet == Init /\ [][NextSet]_vars

\* The driver's calls on parameter p, with every input.
AnimStep(p) ==
    \/ \E id \in PropertyIds :
         \E a \in ReadTargets(getAnimationPropertyComponentCount(World, p, id)) :
            CallGetAnimationPropertyValue(p, id, a)
    \/ \E w \in Weights :
         \E a \in BlendInputs(getAnimationPropertyComponentCount(World, p, ANIMATE_UNIFORM)) :
            CallSetAnimationPropertyValue(p, ANIMATE_UNIFORM, a, w, FALSE)
    \/ \E w \in Weights : CallSetAnimationPropertyValue(p, ANIMATE_UNIFORM, av, w, TRUE)
    \/ CallSetAnimationPropertyValue(p, ANIMATE_UNIFORM + 1, <<>>, IntToFloat(1), FALSE)
    \/ \E w \in BadWeights, id \in PropertyIds :
         \E a \in {Ramp(getAnimationPropertyComponentCount(World, p, id), 4)} :
            CallSetAnimationPropertyValue(p, id, a, w, FALSE)
    \/ CallGetAnimationPropertyValue(p, ANIMATE_UNIFORM, NoValue)
    \/ CallSetAnimationPropertyValue(p, ANIMATE_UNIFORM, NoValue, IntToFloat(1), FALSE)

\* Operation sequences of MaxOps operations on two parameters: the setValue
\* overloads, bindValue, clearValue, the destructor, cloneInto, the animation
\* driver and bind.
Next ==
    \/ \E p \in Params : SetStep(p)
    \/ \E p, q \in Params, fits \in BOOLEAN : CallCloneInto(p, q, fits)
    \/ \E p \in Params : AnimStep(p)
    \/ \E p \in Params, e \in Effects : CallBind(p, e)

Spec == InitAnim /\ [][Next]_vars

\* Runs of MaxBindOps operations, on parameters of two names or of one.
InitBind ==
    /\ InitCells
    /\ name \in {DistinctNames, [p \in Params |-> 2]}
    /\ fuel = MaxBindOps

\* The calls of the renderer and of the material's owner on parameter p: one
\* input for every overload, every effect.
BindStep(p) ==
    \/ CallSetValueFloat(p, Frac(5, 1))
    \/ CallSetValueInt(p, BigInt)
    \/ \E n \in 1 .. MaxCount : CallSetValueFloatArray(p, CallerBuf("FLOAT"), n)
    \/ \E n \in 1 .. MaxCount : CallSetValueIntArray(p, CallerBuf("INT"), n)
    \/ CallSetValueVector2(p, Ramp(2, 4))
    \/ CallSetValueVector2Array(p, CallerBuf("VECTOR2"), MaxCount)
    \/ CallSetValueVector3(p, Ramp(3, 4))
    \/ CallSetValueVector3Array(p, CallerBuf("VECTOR3"), MaxCount)
    \/ CallSetValueVector4(p, Ramp(4, 4))
    \/ CallSetValueVector4Array(p, CallerBuf("VECTOR4"), 1)
    \/ CallSetValueMatrix(p, [i \in 1 .. 16 |-> IntToFloat(2)])
    \/ CallSetValueMatrixArray(p, CallerBuf("MATRIX"), MaxCount)
    \/ CallSetValueSampler(p, 1)
    \/ CallBindValue(p, "&Node::getTranslationWorld")
    \/ \E e \in Effects : CallBind(p, e)

NextBind ==
    \/ \E p \in Params : BindStep(p)
    \/ \E p, q \in Params, fits \in BOOLEAN : CallCloneInto(p, q, fits)

SpecBind == InitBind /\ [][NextBind]_vars

\* The setValue overloads and clearValue on parameter p, with every input.
CellStep(p) ==
    \/ \E f \in FloatInputs : CallSetValueFloat(p, f)
    \/ \E i \in IntInputs : CallSetValueInt(p, i)
    \/ \E a \in {NULL, CallerBuf("FLOAT")}, n \in Counts : CallSetValueFloatArray(p, a, n)
    \/ \E a \in {NULL, CallerBuf("INT")}, n \in Counts : CallSetValueIntArray(p, a, n)
    \/ \E vec \in VectorInputs(2) : CallSetValueVector2(p, vec)
    \/ \E a \in {NULL, CallerBuf("VECTOR2")}, n \in Counts : CallSetValueVector2Array(p, a, n)
    \/ \E vec \in VectorInputs(3) : CallSetValueVector3(p, vec)
    \/ \E a \in {NULL, CallerBuf("VECTOR3")}, n \in Counts : CallSetValueVector3Array(p, a, n)
    \/ \E vec \in VectorInputs(4) : CallSetValueVector4(p, vec)
    \/ \E a \in {NULL, CallerBuf("VECTOR4")}, n \in Counts : CallSetValueVector4Array(p, a, n)
    \/ \E mat \in MatrixInputs : CallSetValueMatrix(p, mat)
    \/ \E a \in {NULL, CallerBuf("MATRIX")}, n \in Counts : CallSetValueMatrixArray(p, a, n)
    \/ \E s \in {NULL} \cup SamplerIds : CallSetValueSampler(p, s)
    \/ \E path \in {NULL, 1}, created \in BOOLEAN : CallSetValueTexturePath(p, path, created)
    \/ CallClearValue(p)

\* Operation sequences of MaxOps operations on two parameters: the
\* constructor, the setValue overloads, clearValue and cloneInto.
NextCell ==
    \/ \E p \in Params : CellStep(p)
    \/ \E p, q \in Params, fits \in BOOLEAN : CallCloneInto(p, q, fits)

SpecCell == InitAnim /\ [][NextCell]_vars

\* One call of a script entry point on an AnimationValue of two or three
\* floats.
InitLua ==
    /\ InitObjects
    /\ av \in {Ramp(2, 1), Ramp(3, 4)}
    /\ name = DistinctNames
    /\ fuel = MaxLuaOps

NextLua ==
    \/ LuaReady /\ \E stack \in LuaStacks : CallLuaGetFloat(stack)
    \/ LuaReady /\ \E stack \in LuaStacks : CallLuaSetFloat(stack)

SpecLua == InitLua /\ [][NextLua]_vars

(***************************************************************************)
(* Ownership of buffers and references, one parameter, no cloneInto.       *)
(***************************************************************************)
\* The buffer p owns: the one its destructor or its next set will delete[].
Owns(p, a) == alive[p] /\ dynamic[p] /\ AsPtr(value[p]) = a

DeleteFaults == {"delete[] of a pointer that is no buffer",
                 "delete[] of a caller's buffer",
                 "delete[] of a freed buffer"}

\* C1: over any sequence of setValue overloads, clearValue and the
\* destructor on one parameter, a buffer the parameter allocated is either
\* still owned by the parameter or has been freed exactly once (none is
\* leaked, none is freed twice, none is left after destruction), and no
\* buffer of the caller's is ever freed.
C1_OwnedFreedOnce ==
    /\ \A a \in CallerAddrs : heap[a].st = "live" /\ heap[a].frees = 0
    /\ \A a \in OwnAddrs :
          /\ heap[a].frees <= 1
          /\ heap[a].st = "live" => Owns(1, a) /\ heap[a].frees = 0
          /\ heap[a].st = "freed" => heap[a].frees = 1
          /\ heap[a].st = "unalloc" => heap[a].frees = 0
    /\ ub \cap DeleteFaults = {}

\* The parameter has allocated every buffer the heap has, and is destroyed.
C1_Witness ==
    /\ ~alive[1]
    /\ \A a \in OwnAddrs : heap[a].st = "freed" /\ heap[a].frees = 1

\* C2: for every setValue overload, setValue followed by clearValue leaves
\* kind NONE, count 1 and the payload zeroed, with every owned allocation
\* released exactly once.
C2_SetThenClear ==
    (last.op = "clearValue" /\ last.flag) =>
        /\ type[last.p] = "NONE"
        /\ count[last.p] = 1
        /\ value[last.p] = Zero
        /\ \A a \in OwnAddrs : heap[a].st # "live" /\ heap[a].frees <= 1

\* C3: whenever the most recent operation was setValue(float) or
\* setValue(int), the parameter has count 1.
C3_ScalarCountOne ==
    last.op = "setValue(scalar)" => count[last.p] = 1

ReleaseFaults == {"addRef on a pointer that is no sampler",
                  "addRef on a destroyed sampler",
                  "release on a pointer that is no sampler",
                  "release on a destroyed sampler",
                  "release on a pointer that is no method"}

\* The sampler q holds a reference on: its payload.
HoldsSampler(q, s) == alive[q] /\ type[q] = "SAMPLER" /\ AsSampler(value[q]) = s

\* C6: over any sequence of setValue overloads, clearValue and the
\* destructor, the references the parameter holds on a sampler are 1 while
\* the sampler is its payload and 0 otherwise: the payload is a sampler that
\* exists, and every addRef and release is made on a sampler that exists.
C6_SamplerReferences ==
    /\ \A s \in SamplerIds :
          /\ held[1][s] = IF HoldsSampler(1, s) THEN 1 ELSE 0
          /\ HoldsSampler(1, s) => samplers[s].st = "live"
    /\ ub \cap ReleaseFaults = {}

(***************************************************************************)
(* cloneInto.                                                              *)
(***************************************************************************)
Mutators == SetOps \cup {"setAnimationPropertyValue"}

\* The state cloneInto leaves when the source last.p is a Vector3.
Vector3Cloned ==
    /\ last.op = "cloneInto"
    /\ type[last.p] = "VECTOR3"
    /\ count[last.p] >= 1

\* The clone of a single Vector3: the same channels, in a buffer of its own.
ClonedByValue(p, q) ==
    /\ type[q] = "VECTOR3" /\ count[q] = 1
    /\ Channels(World, q) = Channels(World, p)
    /\ AsPtr(value[q]) \in OwnAddrs
    /\ AsPtr(value[q]) # AsPtr(value[p])
    /\ heap[AsPtr(value[q])].st = "live"
    /\ Owns(q, AsPtr(value[q]))

\* The clone of a Vector3 array: the caller's buffer of the original.
ClonedByReference(p, q) ==
    /\ type[q] = "VECTOR3" /\ count[q] = count[p]
    /\ AsPtr(value[q]) = AsPtr(value[p])
    /\ AsPtr(value[q]) \in CallerAddrs
    /\ ~dynamic[q]

\* What cloneInto of a Vector3 has made of the target.
Vector3CloneMade ==
    Vector3Cloned =>
        IF count[last.p] = 1
        THEN ClonedByValue(last.p, last.q)
        ELSE ClonedByReference(last.p, last.q)

\* C4: cloneInto of a Vector3 parameter.  With count 1 the clone has the
\* original's three channels in a buffer it owns, and the set or blend that
\* follows on either of the two leaves the other's channels as they were;
\* with count above 1 the clone and the original point to the same buffer
\* of the caller's.
C4_Vector3Clone ==
    [][/\ Vector3CloneMade'
       /\ \A p, q \in Params :
            (/\ Vector3Cloned /\ count[last.p] = 1
             /\ {last.p, last.q} = {p, q}
             /\ last'.op \in Mutators /\ last'.p = p) =>
                Channels(World, q)' = Channels(World, q)
      ]_vars

\* A single Vector3 was cloned and the clone then blended: the clone has
\* moved, the original has not.
C4_Witness ==
    /\ last.op = "setAnimationPropertyValue" /\ last.after = "cloneInto"
    /\ type[1] = "VECTOR3" /\ type[2] = "VECTOR3"
    /\ count[1] = 1 /\ count[2] = 1
    /\ last.pre = Channels(World, 3 - last.p)
    /\ Channels(World, last.p) # last.pre
    /\ Channels(World, last.p) = [i \in 1 .. 3 |-> Lerp(last.weight, last.pre[i], last.input[i])]

\* C5: cloneInto(target) clears the target's prior state like a typed set:
\* the buffer the target owned is freed exactly once (or is still the
\* target's, where a set writes in place), the reference it held is released
\* exactly once, and nothing the target did not own is freed or released.
C5_CloneClearsTarget ==
    [][\A q \in Params :
          (last'.op = "cloneInto" /\ last'.q = q) =>
              /\ (ub' \ ub) \cap (DeleteFaults \cup ReleaseFaults) = {}
              /\ \A a \in CallerAddrs : heap'[a].frees = heap[a].frees
              /\ \A a \in OwnAddrs :
                    /\ Owns(q, a) =>
                          \/ Owns(q, a)'
                          \/ heap'[a].st = "freed" /\ heap'[a].frees = heap[a].frees + 1
                    /\ (~Owns(q, a) /\ heap[a].st = "live") => heap'[a].st = "live"
              /\ \A s \in SamplerIds :
                    held'[q][s] = IF HoldsSampler(q, s)' THEN 1 ELSE 0
      ]_vars

(***************************************************************************)
(* The animation target interface.                                         *)
(***************************************************************************)
\* The channels of one element, kind by kind; no entry for the kinds that
\* are not animated.
ChannelsPerElement ==
    [FLOAT |-> 1, INT |-> 1, VECTOR2 |-> 2, VECTOR3 |-> 3, VECTOR4 |-> 4]

ChannelCount(t, n, id) ==
    IF id = ANIMATE_UNIFORM /\ t \in DOMAIN ChannelsPerElement
    THEN n * ChannelsPerElement[t]
    ELSE 0

\* A cell of kind t and count n, whatever else it holds.
CellOf(t, n) == [type |-> [p \in Params |-> t], count |-> [p \in Params |-> n]]

\* C7: getAnimationPropertyComponentCount(ANIMATE_UNIFORM) is count times
\* 1, 1, 2, 3, 4 for Float, Int, Vector2, Vector3, Vector4, and 0 for Matrix,
\* Sampler, Method and None and for every other property id: in every state
\* the parameters reach, and for every kind and count.
C7_ComponentCount ==
    /\ \A p \in Params, id \in PropertyIds :
          getAnimationPropertyComponentCount(World, p, id)
              = ChannelCount(type[p], count[p], id)
    /\ \A t \in Types, n \in Counts, id \in PropertyIds :
          getAnimationPropertyComponentCount(CellOf(t, n), 1, id) = ChannelCount(t, n, id)

\* A Vector2 array and a Vector4 array of MaxCount elements, and the driver
\* has asked for the component count of one of them.
C7_Witness ==
    /\ last.op = "getAnimationPropertyValue"
    /\ {type[1], type[2]} = {"VECTOR2", "VECTOR4"}
    /\ count[1] = MaxCount /\ count[2] = MaxCount
    /\ Len(av) = MaxCount * ChannelsPerElement[type[last.p]]

\* Channels that hold numbers: the cell's storage is there, and was written
\* as what it is read as.
Defined(t, ch) ==
    \A i \in DOMAIN ch : IF t = "INT" THEN ch[i] # Unknown ELSE ch[i] # UnknownF

Animatable == DOMAIN ChannelsPerElement

\* The state a blend through ANIMATE_UNIFORM leaves when it has run to its
\* end, on a cell of an animated kind whose channels held numbers.
Blended ==
    /\ last.op = "setAnimationPropertyValue"
    /\ out.fatal = "none"
    /\ last.id = ANIMATE_UNIFORM
    /\ type[last.p] \in Animatable
    /\ Defined(type[last.p], last.pre)

\* Channel c of a cell of kind t is the float f.
Holds(t, c, f) ==
    IF t = "INT" THEN IntToFloat(c) = f /\ FloatToInt(f) = c ELSE c = f

\* Channel c of a cell of kind t, as the float the blend computes with.
Current(t, c) == IF t = "INT" THEN IntToFloat(c) ELSE c

\* What a cell of kind t keeps of the float f.
Kept(t, f) == IF t = "INT" THEN FloatToInt(f) ELSE f

\* C8 as the specification states it: a blend with weight 0 leaves every
\* channel unchanged, a blend with weight 1 leaves every channel equal to the
\* input channel.
C8_WeightZeroOne ==
    Blended =>
        LET post == Channels(World, last.p)
        IN  /\ last.weight = IntToFloat(0) => post = last.pre
            /\ last.weight = IntToFloat(1) =>
                  \A i \in DOMAIN post : Holds(type[last.p], post[i], last.input[i])

\* C8, amended: a blend with weight 0 leaves a float channel unchanged and an
\* Int channel the int of its float; a blend with weight 1 leaves a channel
\* whose difference from the input channel is a float equal to the input
\* channel, truncated toward zero in an Int cell.
C8_WeightZeroOneRounded ==
    Blended =>
        LET t    == type[last.p]
            post == Channels(World, last.p)
        IN  /\ Len(post) = Len(last.pre)
            /\ last.weight = IntToFloat(0) =>
                  \A i \in DOMAIN post : post[i] = Kept(t, Current(t, last.pre[i]))
            /\ last.weight = IntToFloat(1) =>
                  \A i \in DOMAIN post :
                      ExactDiff(Current(t, last.pre[i]), last.input[i]) =>
                          post[i] = Kept(t, last.input[i])

\* A Vector2 array of two elements has been blended with weight 1 and now
\* holds the input, and the input is not what it held.
C8_Witness ==
    /\ Blended
    /\ type[last.p] = "VECTOR2" /\ count[last.p] = 2
    /\ last.weight = IntToFloat(1)
    /\ Channels(World, last.p) = last.input
    /\ \A i \in 1 .. 4 : last.input[i] # last.pre[i]

\* C9: getAnimationPropertyValue into an AnimationValue, then
\* setAnimationPropertyValue of that AnimationValue with weight 1, leaves the
\* cell as it was before the read.
C9_RoundTrip ==
    (Blended /\ last.flag /\ last.weight = IntToFloat(1)) =>
        Channels(World, last.p) = last.pre

\* What a blend step on p leaves alone: the kind, the count, the ownership,
\* the other parameters, and every scalar that is no channel of p.
Untouched(p) ==
    LET cc     == Len(Channels(World, p))
        scalar == type[p] \in {"FLOAT", "INT"} /\ count[p] = 1
    IN  /\ type' = type /\ count' = count /\ dynamic' = dynamic
        /\ \A q \in Params \ {p} : value'[q] = value[q]
        /\ ~scalar => value'[p] = value[p]
        /\ \A a \in Addrs :
              /\ heap'[a].st = heap[a].st
              /\ Len(heap'[a].data) = Len(heap[a].data)
              /\ \A i \in 1 .. Len(heap[a].data) :
                    (scalar \/ a # AsPtr(value[p]) \/ i > cc) =>
                        heap'[a].data[i] = heap[a].data[i]

\* A blend step on p through ANIMATE_UNIFORM that runs to its end, p of an
\* animated kind with channels that hold numbers.
BlendStep(p) ==
    /\ last'.op = "setAnimationPropertyValue"
    /\ out'.fatal = "none"
    /\ last'.p = p
    /\ last'.id = ANIMATE_UNIFORM
    /\ type[p] \in Animatable
    /\ Defined(type[p], Channels(World, p))

\* current + w * (input - current)
Blend(w, current, input) == FAdd(current, FMul(w, FSub(input, current)))

\* C10 as the specification states it: a blend replaces every channel i by
\* current[i] + w * (input[i] - current[i]) and touches nothing else.
C10_BlendFormula ==
    [][\A p \in Params :
          BlendStep(p) =>
              /\ \A i \in DOMAIN Channels(World, p) :
                    Holds(type[p], Channels(World, p)'[i],
                          Blend(last'.weight, Current(type[p], Channels(World, p)[i]),
                                last'.input[i]))
              /\ Untouched(p)
      ]_vars

\* C10, amended: a blend replaces every channel i by
\* current[i] + w * (input[i] - current[i]), computed in floats from the
\* channel and the input of the same index and, in an Int cell, truncated
\* toward zero; it touches nothing else.
C10_BlendFormulaTruncated ==
    [][\A p \in Params :
          BlendStep(p) =>
              /\ Len(Channels(World, p)') = Len(Channels(World, p))
              /\ \A i \in DOMAIN Channels(World, p) :
                    Channels(World, p)'[i] =
                        Kept(type[p],
                             Blend(last'.weight, Current(type[p], Channels(World, p)[i]),
                                   last'.input[i]))
              /\ Untouched(p)
      ]_vars

\* Vector3(1, 2, 3) blended with the input (4, 5, 6) at weight 0.5 holds
\* (2.5, 3.5, 4.5).
C10_Witness ==
    /\ Blended
    /\ type[last.p] = "VECTOR3" /\ count[last.p] = 1
    /\ last.pre = Ramp(3, 1)
    /\ last.input = Ramp(3, 4)
    /\ last.weight = Frac(1, 1)
    /\ Channels(World, last.p) = <<Frac(5, 1), Frac(7, 1), Frac(9, 1)>>

\* The state a read through ANIMATE_UNIFORM leaves when it has run to its
\* end, on a cell of an animated kind whose channels hold numbers.
ReadDone ==
    /\ last.op = "getAnimationPropertyValue"
    /\ last.id = ANIMATE_UNIFORM
    /\ out.fatal = "none"
    /\ type[last.p] \in Animatable
    /\ Defined(type[last.p], Channels(World, last.p))

\* C11: getAnimationPropertyValue copies each flat channel of the cell into
\* the AnimationValue in index order: after the call, output channel i is the
\* cell's flat channel i (an int as its float) for every i below the channel
\* count, for every animated kind and every count, Vector2/3/4 arrays of more
\* than one element included.
C11_ReadInOrder ==
    ReadDone =>
        LET ch == Channels(World, last.p)
        IN  /\ Len(av) >= Len(ch)
            /\ \A i \in DOMAIN ch : av[i] = Current(type[last.p], ch[i])

(***************************************************************************)
(* bind and the cached uniform.                                            *)
(***************************************************************************)
\* A step that is p.bind(e).
BindOf(p, e) == last'.op = "bind" /\ last'.p = p /\ last'.id = e

CellsKept ==
    /\ type' = type /\ count' = count /\ dynamic' = dynamic /\ value' = value
    /\ heap' = heap /\ samplers' = samplers /\ methods' = methods

\* C13: bind(e) on a parameter whose name e has no uniform for is a no-op
\* for every kind of cell, NONE included: no upload, no abort, a warning, and
\* the kind, count, ownership flag and payload as they were.
C13_MissingUniformNoOp ==
    [][\A p \in Params, e \in Effects :
          (BindOf(p, e) /\ getUniform(e, name[p]) = NullUniform) =>
              /\ out'.uploads = <<>>
              /\ out'.fatal = "none"
              /\ out'.warn
              /\ CellsKept
      ]_vars

\* The upload bind makes for a cell of kind t and count n: the call, and the
\* count it is made with.
UploadFor ==
    [FLOAT   |-> [one |-> "float", many |-> "float[]"],
     INT     |-> [one |-> "int", many |-> "int[]"],
     VECTOR2 |-> [one |-> "Vector2[]", many |-> "Vector2[]"],
     VECTOR3 |-> [one |-> "Vector3[]", many |-> "Vector3[]"],
     VECTOR4 |-> [one |-> "Vector4[]", many |-> "Vector4[]"],
     MATRIX  |-> [one |-> "Matrix[]", many |-> "Matrix[]"],
     SAMPLER |-> [one |-> "sampler", many |-> "sampler"],
     METHOD  |-> [one |-> "method", many |-> "method"]]

\* The argument of the upload: the scalar, the pointer, the sampler or the
\* method in the cell.
UploadArg(t, n, u) ==
    CASE t = "FLOAT" /\ n = 1 -> AsFloat(u)
      [] t = "INT" /\ n = 1   -> AsInt(u)
      [] t = "SAMPLER"        -> AsSampler(u)
      [] t = "METHOD"         -> AsMethod(u)
      [] OTHER                -> AsPtr(u)

\* C14: a bind that has a uniform performs exactly one upload, chosen by the
\* cell's kind.  Float and Int: the single-value upload when count is 1, the
\* array upload with count otherwise.  Vector2/3/4 and Matrix: the typed
\* array upload with count.  Sampler: the upload of the sampler.  Method: the
\* method's setValue(effect).  NONE: the fatal error, and no upload.
C14_OneUploadByKind ==
    [][\A p \in Params, e \in Effects :
          (BindOf(p, e) /\ uniform'[p] # NullUniform) =>
              LET t   == type[p]
                  n   == count[p]
                  ups == out'.uploads
              IN  IF t = "NONE"
                  THEN ups = <<>> /\ out'.fatal = "error"
                  ELSE /\ Len(ups) = 1
                       /\ out'.fatal = "none"
                       /\ ups[1].call = IF n = 1 THEN UploadFor[t].one
                                        ELSE UploadFor[t].many
                       /\ ups[1].arg = UploadArg(t, n, value[p])
                       /\ ups[1].call \in {"float[]", "int[]", "Vector2[]",
                                           "Vector3[]", "Vector4[]", "Matrix[]"}
                             => ups[1].count = n
      ]_vars

\* An Int array of MaxCount elements and a method binding have each been
\* bound: the last bind made one upload, an int[] of MaxCount elements read
\* from the caller's array or the call of the method.
C14_Witness ==
    /\ last.op = "bind"
    /\ {type[1], type[2]} = {"INT", "METHOD"}
    /\ count[CHOOSE p \in Params : type[p] = "INT"] = MaxCount
    /\ Len(out.uploads) = 1
    /\ LET up == out.uploads[1]
       IN  IF type[last.p] = "INT"
           THEN /\ up.call = "int[]" /\ up.count = MaxCount
                /\ up.data = CallerData(CallerBuf("INT"))
           ELSE up.call = "method" /\ up.arg \in MethodIds

(***************************************************************************)
(* bindValue.                                                              *)
(***************************************************************************)
\* The state a bindValue that succeeded leaves: a Method cell that owns the
\* one reference on a live binding of an accessor of k floats.
Installed(p, k) ==
    /\ out.fatal = "none"
    /\ type[p] = "METHOD"
    /\ dynamic[p]
    /\ AsMethod(value[p]) \in MethodIds
    /\ methods[AsMethod(value[p])].st = "live"
    /\ methods[AsMethod(value[p])].refCount = 1
    /\ methods[AsMethod(value[p])].arity = k

\* C15 as the specification states it: bindValue with the name
\* "getTranslationWorld" succeeds and installs a binding of 3 floats, and with
\* a name outside the table, such as "bogusAccessor", it raises the fatal
\* unsupported-binding error.
C15_BindValueByName ==
    last.op = "bindValue" =>
        /\ last.binding = "getTranslationWorld" => Installed(last.p, 3)
        /\ last.binding = "bogusAccessor" => out.fatal = "error"

\* C15, amended: bindValue succeeds for the names of its table, which are
\* the accessors written as "&Node::getTranslationWorld" (a binding of 3
\* floats) or "&Node::getScaleX" (of 1 float); every other name, the bare
\* "getTranslationWorld" as well as "bogusAccessor", raises the fatal
\* unsupported-binding error.
C15_BindValueByQualifiedName ==
    last.op = "bindValue" =>
        /\ last.binding = "&Node::getTranslationWorld" => Installed(last.p, 3)
        /\ last.binding = "&Node::getScaleX" => Installed(last.p, 1)
        /\ last.binding \in {"getTranslationWorld", "bogusAccessor"} =>
              out.fatal = "error"

\* bindValue("&Node::getTranslationWorld") has installed a binding of 3 floats
\* over a sampler the parameter held.
C15_Witness ==
    /\ last.op = "bindValue" /\ last.after = "setValue(sampler)"
    /\ last.binding = "&Node::getTranslationWorld"
    /\ Installed(last.p, 3)

(***************************************************************************)
(* The error paths of the animation target interface.                      *)
(***************************************************************************)
\* C16: setAnimationPropertyValue with a blendWeight outside [0, 1] ends as
\* a precondition violation before it has changed anything: for every kind
\* and every property id the kind, count, ownership flag, payload and
\* buffers are as they were.
C16_WeightOutOfRange ==
    [][(last'.op = "setAnimationPropertyValue" /\ ~InUnit(last'.weight)) =>
          /\ out'.fatal = "assert"
          /\ CellsKept
      ]_vars

\* A blend of a single Vector3 with weight 1.5 has ended in the assertion,
\* and the vector is what it was.
C16_Witness ==
    /\ last.op = "setAnimationPropertyValue"
    /\ last.weight = Frac(3, 1)
    /\ last.id = ANIMATE_UNIFORM
    /\ out.fatal = "assert"
    /\ type[last.p] = "VECTOR3" /\ count[last.p] = 1
    /\ last.pre = Ramp(3, 1)
    /\ last.input = Ramp(3, 4)
    /\ Channels(World, last.p) = last.pre

NotAnimated == Types \ Animatable

\* A step that calls op on a cell that is not animated, or with a property
\* id that is not ANIMATE_UNIFORM.
UnsupportedCall(op) ==
    /\ last'.op = op
    /\ type[last'.p] \in NotAnimated \/ last'.id # ANIMATE_UNIFORM

\* C17: setAnimationPropertyValue (with a weight in [0, 1]) on a cell of kind
\* Matrix, Sampler, Method or None, or with a property id other than
\* ANIMATE_UNIFORM, leaves the kind, count, ownership flag and payload as
\* they were, and getAnimationPropertyValue in those cases leaves the
\* AnimationValue as it was passed.  Either call returns normally unless the
\* AnimationValue pointer is null, which the assertions at the head of both
\* operations reject.
C17_UnsupportedIsNoOp ==
    [][/\ (UnsupportedCall("setAnimationPropertyValue") /\ InUnit(last'.weight)) =>
             /\ CellsKept
             /\ last'.input # NoValue => out'.fatal = "none"
       /\ UnsupportedCall("getAnimationPropertyValue") =>
             /\ CellsKept
             /\ av' = last'.input
             /\ last'.input # NoValue => out'.fatal = "none"
      ]_vars

\* A read of a Matrix cell into an AnimationValue that held a float, which
\* it still holds.
C17_Witness ==
    /\ last.op = "getAnimationPropertyValue"
    /\ last.id = ANIMATE_UNIFORM
    /\ type[last.p] = "MATRIX" /\ count[last.p] = MaxCount
    /\ last.input = <<FarFloat>>
    /\ av = <<FarFloat>>

(***************************************************************************)
(* cloneInto of arrays and of matrices.                                    *)
(***************************************************************************)
\* A parameter as its constructor leaves it.
Fresh(q) ==
    /\ type[q] = "NONE" /\ count[q] = 1 /\ ~dynamic[q] /\ value[q] = Zero
    /\ uniform[q] = NullUniform

\* A Float or Int parameter set from an array of the caller's of more than
\* one element.
BorrowedScalarArray(p) ==
    /\ type[p] \in {"FLOAT", "INT"}
    /\ count[p] > 1
    /\ ~dynamic[p]
    /\ AsPtr(value[p]) \in CallerAddrs
    /\ ArrayKinds[AsPtr(value[p])] = type[p]

\* C18: cloneInto of a Float or Int parameter set from a borrowed array with
\* count n > 1 into a fresh target leaves a target of the same kind and
\* count that points to the same buffer as the source, so that the target's
\* channels are the source's n values.
C18_ScalarArrayClone ==
    [][\A p, q \in Params :
          (/\ last'.op = "cloneInto" /\ last'.p = p /\ last'.q = q
           /\ BorrowedScalarArray(p) /\ Fresh(q)) =>
              /\ type'[q] = type[p]
              /\ count'[q] = count[p]
              /\ AsPtr(value'[q]) = AsPtr(value[p])
              /\ Channels(World, q)' = Channels(World, p)
      ]_vars

WriteFaults == {"write past the end of a buffer",
                "write through a pointer to no live buffer"}

\* A step in which setValue(const Matrix&) runs on q: called by the caller,
\* or by cloneInto from a source that holds a single matrix.
MatrixSetOn(q) ==
    \/ last'.op = "setValue(matrix)" /\ last'.p = q
    \/ /\ last'.op = "cloneInto" /\ last'.q = q
       /\ type[last'.p] = "MATRIX" /\ count[last'.p] = 1
       /\ AsPtr(value[last'.p]) # NULL

\* q holds a buffer of 16 floats that it allocated for a single matrix.
OwnsSingleMatrix(q, a) ==
    /\ Owns(q, a) /\ type[q] = "MATRIX" /\ count[q] = 1
    /\ a \in OwnAddrs /\ heap[a].st = "live" /\ Len(heap[a].data) = 16

\* C19: setValue(const Matrix&) writes in place only into a buffer of 16
\* floats that the parameter allocated for a single matrix; in every other
\* state, the call cloneInto makes on its target included, it writes into a
\* new buffer of 16 floats: never into a buffer of the caller's, a buffer of
\* another size or a payload that is no buffer.
C19_MatrixInPlace ==
    [][\A q \in Params :
          MatrixSetOn(q) =>
              /\ (ub' \ ub) \cap WriteFaults = {}
              /\ \A b \in CallerAddrs : heap'[b].data = heap[b].data
              /\ \E a \in OwnAddrs :
                    /\ AsPtr(value'[q]) = a
                    /\ heap'[a].st = "live" /\ Len(heap'[a].data) = 16
                    /\ heap[a].st = "unalloc" \/ OwnsSingleMatrix(q, a)
      ]_vars

(***************************************************************************)
(* Borrowed arrays.                                                        *)
(***************************************************************************)
\* p is a Float or Int parameter whose payload is the pointer to the array
\* of its kind that the caller passed to setValue(buffer, n), n >= least.
Borrowed(p, least) ==
    /\ type[p] \in {"FLOAT", "INT"}
    /\ count[p] >= least
    /\ ~dynamic[p]
    /\ value[p].tag = "ptr"
    /\ AsPtr(value[p]) \in CallerAddrs
    /\ ArrayKinds[AsPtr(value[p])] = type[p]

\* What read, bind and blend do with the first count[p] elements of the
\* buffer p points to, when the buffer is p's value.
UsesBuffer(p) ==
    LET t   == type[p]
        n   == count[p]
        buf == AsPtr(value[p])
        old == heap[buf].data
    IN  /\ (last'.op = "getAnimationPropertyValue" /\ last'.id = ANIMATE_UNIFORM) =>
              \A i \in 1 .. n : av'[i] = Current(t, old[i])
        /\ (last'.op = "bind" /\ uniform'[p] # NullUniform) =>
              /\ Len(out'.uploads) = 1
              /\ out'.uploads[1].arg = buf
              /\ out'.uploads[1].data = SubSeq(old, 1, n)
        /\ (/\ last'.op = "setAnimationPropertyValue"
            /\ last'.id = ANIMATE_UNIFORM /\ InUnit(last'.weight)) =>
              \A i \in 1 .. n :
                  heap'[buf].data[i] =
                      Kept(t, Blend(last'.weight, Current(t, old[i]), last'.input[i]))

\* C20: after setValue(buffer, n) with a borrowed float or int array, for
\* every n >= 1, n = 1 included, the parameter's value is the buffer's
\* contents: getAnimationPropertyValue yields buffer[0..n-1], bind uploads
\* the buffer's elements, and a blend writes into the buffer's elements.
C20_BorrowedArrayIsValue ==
    [][\A p \in Params : (Borrowed(p, 1) /\ last'.p = p) => UsesBuffer(p)]_vars

(***************************************************************************)
(* Assigning the sampler the parameter already holds.                      *)
(***************************************************************************)
\* p holds the only reference on s: s is p's payload and its count is 1.
SoleHolder(p, s) ==
    /\ HoldsSampler(p, s)
    /\ samplers[s].st = "live"
    /\ samplers[s].refCount = 1
    /\ held[p][s] = 1

\* C21: setValue(sampler) with the sampler the parameter already holds, when
\* the parameter's reference is the only one, never lets the sampler's count
\* reach zero: after the call the sampler exists, its count is 1 and the
\* parameter holds exactly one reference on it.
C21_SelfAssignKeepsSampler ==
    [][\A p \in Params, s \in SamplerIds :
          (/\ SoleHolder(p, s)
           /\ last'.op = "setValue(sampler)"
           /\ last'.p = p
           /\ AsSampler(value'[p]) = s)
          => /\ samplers'[s].st = "live"
             /\ samplers'[s].refCount = 1
             /\ held'[p][s] = 1
             /\ ub' \cap ReleaseFaults = ub \cap ReleaseFaults]_vars

(***************************************************************************)
(* Operations that end in a fatal error or a failed precondition.          *)
(***************************************************************************)
\* The step is a call that aborted.
Aborted == out'.fatal # "none"

\* The members of cell p are what they were before the step.
CellKept(p) ==
    /\ type'[p] = type[p]
    /\ count'[p] = count[p]
    /\ dynamic'[p] = dynamic[p]
    /\ value'[p] = value[p]

\* C22: an operation that ends in a fatal error or a failed precondition
\* (setValue of a null vector or matrix array, bindValue with an unknown or
\* null name, bind of a cell of kind NONE, blend with a weight outside [0, 1]
\* or a null AnimationValue) has changed no cell: kind, count, ownership
\* flag and payload are those of before the call.
C22_FatalChangesNothing ==
    [][Aborted => \A p \in Params : CellKept(p)]_vars

\* C22 is exercised: setValue of a null vector or matrix array has aborted on
\* a cell that owns a Vector3, and the cell still owns it.
C22_Witness ==
    /\ out.fatal = "assert"
    /\ last.op = "setValue(array)"
    /\ last.after = "setValue(vector)"
    /\ type[last.p] = "VECTOR3"
    /\ dynamic[last.p]
    /\ AsPtr(value[last.p]) \in OwnAddrs

(***************************************************************************)
(* bind uploads what the cell holds when bind is called.                   *)
(***************************************************************************)
\* The elements a cell set from n elements at a pointer holds: the first
\* n * k floats or ints of the buffer.
BufferContent(t, ptr, n) ==
    LET m == n * Components(t)
    IN  IF m = 0 THEN <<>>
        ELSE IF Valid(heap, ptr, m) THEN SubSeq(heap[ptr].data, 1, m)
        ELSE [i \in 1 .. m |-> IF t = "INT" THEN Unknown ELSE UnknownF]

\* The cell was given a pointer to floats or ints.  All-zero bytes are the
\* scalar 0 in a cell of count 1 and the null pointer otherwise.
HoldsArray(p) ==
    \/ value[p].tag = "ptr"
    \/ value[p].tag = "zero" /\ count[p] # 1

\* What cell p holds: the scalar a Float or Int cell was given, the elements
\* of the buffer for a cell that was given a pointer, the sampler, the method.
Content(p) ==
    LET t == type[p]
        n == count[p]
        u == value[p]
    IN  CASE t = "FLOAT" -> IF HoldsArray(p) THEN BufferContent(t, AsPtr(u), n)
                            ELSE <<AsFloat(u)>>
          [] t = "INT"   -> IF HoldsArray(p) THEN BufferContent(t, AsPtr(u), n)
                            ELSE <<AsInt(u)>>
          [] t \in {"VECTOR2", "VECTOR3", "VECTOR4", "MATRIX"} ->
                            BufferContent(t, AsPtr(u), n)
          [] t = "SAMPLER" -> <<AsSampler(u)>>
          [] t = "METHOD"  -> <<AsMethod(u)>>
          [] OTHER         -> <<>>

\* What an upload hands to the effect: the elements read at the pointer for
\* an array upload, the argument itself otherwise.
Uploaded(up) ==
    IF up.call \in {"float[]", "int[]", "Vector2[]", "Vector3[]", "Vector4[]",
                    "Matrix[]"}
    THEN up.data
    ELSE <<up.arg>>

\* C23: what bind(effect) uploads is what the cell holds when bind is called,
\* and so the result of every set and blend made before the bind (blends
\* written through a borrowed buffer included) and of none made after it;
\* bind changes neither kind, count, ownership flag, payload nor any buffer.
C23_BindUploadsCurrent ==
    [][\A p \in Params, e \in Effects :
          (BindOf(p, e) /\ uniform'[p] # NullUniform /\ type[p] # "NONE") =>
              /\ CellKept(p)
              /\ heap' = heap
              /\ Len(out'.uploads) = 1
              /\ Uploaded(out'.uploads[1]) = Content(p)
      ]_vars

(***************************************************************************)
(* Invariants of the members.                                              *)
(***************************************************************************)
\* Kinds whose payload the parameter allocates or creates itself.
OwningKinds == {"VECTOR2", "VECTOR3", "VECTOR4", "MATRIX", "METHOD"}

\* C24: in every state reached through the constructor, the setValue
\* overloads, clearValue and cloneInto, a parameter whose ownership flag is
\* set has count 1 and kind Vector2, Vector3, Vector4, Matrix or Method; a
\* cell of kind Float, Int, Sampler or None never has the flag set.
C24_OwnershipFlag ==
    \A p \in Params :
        (alive[p] /\ dynamic[p]) => (count[p] = 1 /\ type[p] \in OwningKinds)

\* C24 is exercised: a parameter that a borrowed array had left with
\* another count has become the owner of a single matrix, and cloneInto has
\* made the other parameter the owner of a matrix of its own.
C24_Witness ==
    /\ last.op = "cloneInto"
    /\ last.p # last.q
    /\ \A p \in {last.p, last.q} :
          /\ dynamic[p] /\ type[p] = "MATRIX" /\ count[p] = 1
          /\ AsPtr(value[p]) \in OwnAddrs
    /\ AsPtr(value[last.p]) # AsPtr(value[last.q])
    /\ ub = {}

\* C25: in every reachable state of a parameter count >= 1: no sequence of
\* the constructor, the setValue overloads (the array overloads with any
\* count argument), clearValue and cloneInto leaves count = 0.
C25_CountAtLeastOne ==
    \A p \in Params : alive[p] => count[p] >= 1

(***************************************************************************)
(* The script entry points of AnimationValue.                              *)
(***************************************************************************)
IsNumber(x) == x.t = "number"

\* The first argument is an AnimationValue.
IsSelf(x) == x = LuaUserdata(AnimationValueClass)

\* The bulk form: (userdata, table or light userdata, number, number).
BulkForm(s) ==
    /\ Len(s) = 4
    /\ IsSelf(s[1])
    /\ s[2].t \in {"table", "lightuserdata"}
    /\ IsNumber(s[3])
    /\ IsNumber(s[4])

\* The signatures of getFloat: (userdata, number) and the bulk form.
GetFloatMatches(s) ==
    \/ Len(s) = 2 /\ IsSelf(s[1]) /\ IsNumber(s[2])
    \/ BulkForm(s)

\* The signatures of setFloat: (userdata, number, number) and the bulk form.
SetFloatMatches(s) ==
    \/ Len(s) = 3 /\ IsSelf(s[1]) /\ IsNumber(s[2]) /\ IsNumber(s[3])
    \/ BulkForm(s)

\* The step called the instance exactly once, fn with the arguments a and b,
\* and raised no script error.
CalledOnce(fn, a, b) ==
    /\ out'.error = "none"
    /\ Len(out'.calls) = 1
    /\ out'.calls[1].fn = fn
    /\ out'.calls[1].a = a
    /\ out'.calls[1].b = b

\* The step raised a script error and neither called nor changed the
\* AnimationValue, nor wrote to the floats of the script.
Rejected ==
    /\ out'.error # "none"
    /\ out'.calls = <<>>
    /\ out'.fatal = "none"
    /\ av' = av
    /\ heap' = heap

\* C26: the script entry points reach the AnimationValue only on a matching
\* signature (userdata: the AnimationValue the entry point is called on; a
\* userdata of another class is one of the other combinations of types).
\* getFloat calls the instance exactly once when given
\* (userdata, number) or (userdata, table or light userdata, number, number);
\* setFloat calls it exactly once when given (userdata, number, number) or
\* the bulk form; every other number or combination of types of arguments
\* raises a script error and neither calls nor changes the AnimationValue.
C26_ScriptSignatures ==
    [][/\ last'.op = "lua_AnimationValue_getFloat" =>
             IF GetFloatMatches(last'.input)
             THEN IF Len(last'.input) = 2
                  THEN CalledOnce("getFloat(index)", last'.input[2].v, 0)
                  ELSE CalledOnce("getFloat(value, offset, length)",
                                  last'.input[3].v, last'.input[4].v)
             ELSE Rejected
       /\ last'.op = "lua_AnimationValue_setFloat" =>
             IF SetFloatMatches(last'.input)
             THEN IF Len(last'.input) = 3
                  THEN /\ CalledOnce("setFloat(index, value)", last'.input[2].v, 0)
                       /\ out'.calls[1].data = <<IntToFloat(last'.input[3].v)>>
                  ELSE CalledOnce("setFloat(value, offset, length)",
                                  last'.input[3].v, last'.input[4].v)
             ELSE Rejected
      ]_vars

\* C26 is exercised: setFloat in its bulk form has copied the two floats of
\* the script's table into the AnimationValue.
C26_Witness ==
    /\ last.op = "lua_AnimationValue_setFloat"
    /\ BulkForm(last.input)
    /\ last.input[2] = LuaTable
    /\ Len(out.calls) = 1
    /\ out.fatal = "none"
    /\ SubSeq(av, 1, 2) = TableFloats
    /\ av # last.pre

====
